---- MODULE Spec2Model ----
(***************************************************************************)
(* Settlement and reconciliation core of the arcade backend:               *)
(*   - EventListenerService (checkpointed event indexer and its handlers), *)
(*   - TimeConsumptionService / TipCommandService (request-driven path),   *)
(*   - LostFoundPoolService (claim, streak and cooldown engine).           *)
(* The chain and the datastore are the environment: the chain is a head    *)
(* block number, a set of emitted logs and a mempool; the datastore is one *)
(* variable per table.                                                     *)
(***************************************************************************)
EXTENDS Integers, Sequences, FiniteSets, TLC

\* ------------------------------------------------------------------ bounds
\* Highest block number the chain reaches.
MaxHead == 12
\* Number of event-emitting transactions sent by outside users.
MaxTx == 2
\* Number of faults the environment injects: a process crash (followed by a
\* restart) or a failed RPC call.
MaxFaults == 1
\* Number of days the clock covers.
MaxDays == 2
\* Highest streak a wallet has when the model starts.
MaxStreak == 3
\* Number of times one caller calls addToPool.
MaxAdds == 2
\* Number of game sessions after which no further startSession call begins.
MaxSessions == 3

\* ------------------------------------------------------- program constants
\* pollEvents: const batchSize = 10n
batchSize == 10
\* 1 quarter = 15 minutes = 900 seconds
QuarterSeconds == 900
\* processPurchaseDonation: 1 in 8 goes to pool
DonationDivisor == 8
POOL_CAP == 2500
OVERFLOW_STAKING_PERCENT == 75
\* 24 hours in milliseconds
COOLDOWN_MS == 24 * 60 * 60 * 1000
\* QUARTER_AMOUNT in whole BLOC (the code carries it in wei, 10^18 per BLOC)
QUARTER_BLOC == 250
\* retry(): defaultOptions.maxAttempts.
maxAttempts == 3

\* ------------------------------------------------------------- environment
\* Wallet addresses as the chain reports them (checksummed, mixed case).
Wallets == {"0xAb"}

\* String.prototype.toLowerCase on the addresses of the model.
toLowerCase(a) ==
  CASE a = "0xAb" -> "0xab"
    [] a = "0xCd" -> "0xcd"
    [] OTHER -> a

\* config.eventListener.startBlock values the process may be configured with
\* (0 is the sentinel "start from the current block").
StartBlockConfigs == {0, 1}

\* Amount carried by an event of each type sent by an outside user.
EventAmount(ev) ==
  CASE ev = "TimePurchased" -> 7200
    [] ev = "YeetSent" -> 3
    [] ev = "Staked" -> 5
    [] ev = "Unstaked" -> 8
    [] ev = "TimeConsumed" -> 100
    [] ev = "TipExecuted" -> 4
    [] OTHER -> 1

\* Events that outside users cause directly (purchaseTime, yeet, stake, unstake).
UserEvents == {"TimePurchased", "YeetSent", "Staked", "Unstaked"}

\* Events of the transactions the game server sends (consumeTime, executeTip,
\* claim).
ServerEvents == {"TimeConsumed", "TipExecuted", "Claimed"}

\* The wallet that receives the tips of the model.
TipRecipient == "0xCd"

\* Seconds of play time each wallet bought before the listener's start block.
InitialTimeBalances == {150}

VARIABLES
  \* chain
  head,                 \* current block number of the chain
  chainLogs,            \* logs emitted so far: [tx, ev, blk, player, to, amt]
  \* EventListenerService
  startBlockCfg,        \* config.eventListener.startBlock
  initializedStartBlock,\* this.initializedStartBlock: <<>> (null) or <<n>>
  pc,                   \* position of the polling loop
  currentBlock,         \* pollEvents: currentBlock
  hIdx,                 \* pollEvents: index of the handler in this.handlers
  start,                \* pollEvents: start of the current sub-range
  batch,                \* logs of the current sub-range not yet dispatched
  faults,               \* number of crashes and failed RPC calls so far
  isRunning,            \* this.isRunning
  otherLoop,            \* <<>> or <<locals>>: a second start() call suspended at an await
  \* datastore
  block_sync_state,     \* contract_name -> last_synced_block (rows that exist)
  players,              \* wallet_address -> player row (rows that exist)
  time_purchases,       \* tx_hash of the rows of time_purchases
  yeet_events,          \* tx_hash of the rows of yeet_events
  staking_events,       \* tx_hash of the rows of staking_events
  lost_found_pool,      \* the singleton pool record
  time_consumptions,    \* id -> row
  tips,                 \* id -> row
  game_sessions,        \* id -> row
  pool_claims,          \* wallet_address -> row (rows that exist)
  pool_claim_history,   \* the rows of pool_claim_history, oldest first
  \* chain state used by the request-driven path
  mempool,              \* transactions of the game server not yet mined
  receipts,             \* tx -> "success" | "reverted", for mined ones
  timeBalances,         \* ArcadeVault.timeBalances: wallet -> seconds
  txCount,              \* number of transactions sent to the chain so far
  \* requests in flight
  creq,                 \* consumeTime calls: request -> its locals
  treq,                 \* executeTip calls: request -> its locals
  clreq,                \* claimFromPool calls: request -> its locals
  addreq,               \* addToPool calls: request -> its locals
  sreq,                 \* startSession calls: request -> its locals
  rcall,                \* a retry(fn, opts) call: its options, locals and outcome
  now,                  \* Date.now(), in milliseconds
  \* history (not program state)
  handled,              \* <<eventName, tx>> pairs passed to a handler so far
  firstFrom,            \* contract -> fromBlock used when it had no checkpoint
  cpAtRestart,          \* contract -> checkpoint row at the last process start
  firstFetch,           \* contract -> start of the first range fetched since then
  threw,                \* <<eventName, tx>> pairs on which the handler threw
  lastFail              \* <<>> or <<[pair, s, e]>>: the sub-range whose getLogs failed
                        \* and that its pair has not fetched again yet

chainVars == <<head, chainLogs, mempool, receipts, timeBalances, txCount>>
listenerVars == <<startBlockCfg, initializedStartBlock, pc, currentBlock, hIdx, start, batch,
                  faults, isRunning, otherLoop>>
dbVars == <<block_sync_state, players, time_purchases, yeet_events, staking_events,
            lost_found_pool, time_consumptions, tips, game_sessions, pool_claims,
            pool_claim_history>>
reqVars == <<creq, treq, clreq, addreq, sreq, rcall, now>>
histVars == <<handled, firstFrom, cpAtRestart, firstFetch, threw, lastFail>>
vars == <<chainVars, listenerVars, dbVars, reqVars, histVars>>

\* ------------------------------------------------- EventListenerService
\* registerHandlers: the (contract, event) pairs in registration order.
handlers ==
  << [contractName |-> "ArcadeVault", eventName |-> "TimePurchased"],
     [contractName |-> "ArcadeVault", eventName |-> "TimeConsumed"],
     [contractName |-> "YeetEngine",  eventName |-> "YeetSent"],
     [contractName |-> "StakingPool", eventName |-> "Staked"],
     [contractName |-> "StakingPool", eventName |-> "Unstaked"],
     [contractName |-> "TipBot",      eventName |-> "TipExecuted"],
     [contractName |-> "PoolPayout",  eventName |-> "Claimed"] >>

Contracts == {handlers[i].contractName : i \in 1..Len(handlers)}

\* A new row of players: every counter has DEFAULT 0.
NewPlayer ==
  [cached_time_balance |-> 0, cached_staked_balance |-> 0,
   total_time_purchased |-> 0, total_time_consumed |-> 0, total_yeeted |-> 0,
   total_tips_sent |-> 0, total_tips_received |-> 0]

Max(a, b) == IF a >= b THEN a ELSE b
Min(a, b) == IF a <= b THEN a ELSE b

\* getSyncState(contractName): the row, or null.
getSyncState(c) == IF c \in DOMAIN block_sync_state THEN <<block_sync_state[c]>> ELSE <<>>

\* FromBlock with the checkpoint ignored: every process start begins at the
\* configured start block.
FromBlockIgnoringCheckpoint(syncState, effectiveStartBlock) == effectiveStartBlock

\* pollEvents line 145: fromBlock for a pair.
FromBlock(syncState, effectiveStartBlock) ==
  IF syncState # <<>> THEN syncState[1] + 1 ELSE effectiveStartBlock

\* SubRangeEnd without the clamp to toBlock.
SubRangeEndUnclamped(s, toBlock) == s + batchSize - 1

\* pollEvents line 156: end of the sub-range that starts at s.
SubRangeEnd(s, toBlock) ==
  IF s + batchSize - 1 > toBlock THEN toBlock ELSE s + batchSize - 1

\* publicClient.getLogs: the logs of one event in [fromBlock, toBlock], in
\* block order.
RECURSIVE SortLogs(_)
SortLogs(S) ==
  IF S = {} THEN <<>>
  ELSE LET l == CHOOSE x \in S : \A y \in S : x.blk <= y.blk
       IN <<l>> \o SortLogs(S \ {l})

getLogs(h, fromBlock, toBlock) ==
  SortLogs({l \in chainLogs : /\ l.ev = handlers[h].eventName
                              /\ l.blk >= fromBlock /\ l.blk <= toBlock})

\* getPlayer(walletAddress): the row keyed by the lower-cased address, or null.
getPlayer(pl, w) == IF toLowerCase(w) \in DOMAIN pl THEN <<pl[toLowerCase(w)]>> ELSE <<>>

\* ensurePlayer(walletAddress): the table after the insert of a missing row.
ensurePlayer(pl, w) ==
  IF getPlayer(pl, w) # <<>> THEN pl ELSE pl @@ (toLowerCase(w) :> NewPlayer)

\* addToPool line 68 without the cap: everything offered goes to the pool.
AddedToPoolUncapped(quarters, balance) == quarters

\* addToPool lines 65-68: spaceInPool = Math.max(0, POOL_CAP - balance) and
\* addedToPool = Math.min(quarters, spaceInPool).
AddedToPool(quarters, balance) == Min(quarters, Max(0, POOL_CAP - balance))

\* LostFoundPoolService.addToPool: the pool record after adding quarters.
addToPool(pool, quarters) ==
  LET addedToPool == AddedToPool(quarters, pool.balance)
      overflow == quarters - addedToPool
  IN IF addedToPool > 0 \/ overflow > 0
     THEN [pool EXCEPT !.balance = pool.balance + addedToPool,
                       !.total_received = pool.total_received + quarters,
                       !.total_overflow = pool.total_overflow + overflow]
     ELSE pool

\* LostFoundPoolService.processPurchaseDonation: 1 in 8 quarters goes to the pool.
processPurchaseDonation(pool, quartersPurchased) ==
  LET donationAmount == quartersPurchased \div DonationDivisor
  IN IF donationAmount = 0 THEN pool ELSE addToPool(pool, donationAmount)

\* The ledger rows after "update {status: confirmed} where tx_hash = txHash".
ConfirmByTxHash(rows, txHash) ==
  [id \in DOMAIN rows |->
     IF rows[id].tx_hash = txHash THEN [rows[id] EXCEPT !.status = "confirmed"]
     ELSE rows[id]]

\* The player counters written by handleTimePurchased from the row it read.
PurchasedRow(player, seconds) ==
  [player EXCEPT !.total_time_purchased = player.total_time_purchased + seconds,
                 !.cached_time_balance = player.cached_time_balance + seconds]

handleTimePurchased(log) ==
  LET w == toLowerCase(log.player)
      pl == ensurePlayer(players, log.player)
      quartersPurchased == log.amt \div QuarterSeconds
  IN /\ time_purchases' = time_purchases \cup {log.tx}
     /\ players' = [pl EXCEPT ![w] = PurchasedRow(pl[w], log.amt)]
     /\ lost_found_pool' = IF quartersPurchased > 0
                           THEN processPurchaseDonation(lost_found_pool, quartersPurchased)
                           ELSE lost_found_pool
     /\ UNCHANGED <<yeet_events, staking_events, time_consumptions, tips, pool_claim_history>>

\* The player counters written by handleTimeConsumed from the row it read.
ConsumedRow(player, seconds) ==
  [player EXCEPT !.total_time_consumed = player.total_time_consumed + seconds,
                 !.cached_time_balance = Max(0, player.cached_time_balance - seconds)]

handleTimeConsumed(log) ==
  LET w == toLowerCase(log.player)
  IN /\ players' = IF getPlayer(players, log.player) # <<>>
                   THEN [players EXCEPT ![w] = ConsumedRow(players[w], log.amt)]
                   ELSE players
     /\ time_consumptions' = ConfirmByTxHash(time_consumptions, log.tx)
     /\ UNCHANGED <<time_purchases, yeet_events, staking_events, lost_found_pool, tips,
                    pool_claim_history>>

handleYeetSent(log) ==
  LET w == toLowerCase(log.player)
      pl == ensurePlayer(players, log.player)
  IN /\ yeet_events' = yeet_events \cup {log.tx}
     /\ players' = [pl EXCEPT ![w].total_yeeted = pl[w].total_yeeted + log.amt]
     /\ UNCHANGED <<time_purchases, staking_events, lost_found_pool, time_consumptions, tips,
                    pool_claim_history>>

handleStaked(log) ==
  LET w == toLowerCase(log.player)
      pl == ensurePlayer(players, log.player)
  IN /\ staking_events' = staking_events \cup {log.tx}
     /\ players' = [pl EXCEPT ![w].cached_staked_balance = pl[w].cached_staked_balance + log.amt]
     /\ UNCHANGED <<time_purchases, yeet_events, lost_found_pool, time_consumptions, tips,
                    pool_claim_history>>

\* UnstakedBalance without the clamp at zero.
UnstakedBalanceUnclamped(player, amount) == player.cached_staked_balance - amount

\* The staked balance written by handleUnstaked from the row it read.
UnstakedBalance(player, amount) == Max(0, player.cached_staked_balance - amount)

handleUnstaked(log) ==
  LET w == toLowerCase(log.player)
  IN /\ staking_events' = staking_events \cup {log.tx}
     /\ players' = IF getPlayer(players, log.player) # <<>>
                   THEN [players EXCEPT ![w].cached_staked_balance =
                                           UnstakedBalance(players[w], log.amt)]
                   ELSE players
     /\ UNCHANGED <<time_purchases, yeet_events, lost_found_pool, time_consumptions, tips,
                    pool_claim_history>>

handleTipExecuted(log) ==
  /\ tips' = ConfirmByTxHash(tips, log.tx)
  /\ UNCHANGED <<players, time_purchases, yeet_events, staking_events, lost_found_pool,
                 time_consumptions, pool_claim_history>>

\* handlePoolClaimed: the newest history row of the wallet that has no tx_hash
\* (0 stands for null) gets the log's transaction hash.
handlePoolClaimed(log) ==
  LET w == toLowerCase(log.player)
      open == {i \in 1..Len(pool_claim_history) :
                 pool_claim_history[i].wallet_address = w /\ pool_claim_history[i].tx_hash = 0}
      last == CHOOSE i \in open : \A j \in open : j <= i
  IN /\ pool_claim_history' = IF open = {} THEN pool_claim_history
                              ELSE [pool_claim_history EXCEPT ![last].tx_hash = log.tx]
     /\ UNCHANGED <<players, time_purchases, yeet_events, staking_events, lost_found_pool,
                    time_consumptions, tips>>

\* handler.handler(log) for the handler registered for eventName.
Handle(eventName, log) ==
  CASE eventName = "TimePurchased" -> handleTimePurchased(log)
    [] eventName = "TimeConsumed" -> handleTimeConsumed(log)
    [] eventName = "YeetSent" -> handleYeetSent(log)
    [] eventName = "Staked" -> handleStaked(log)
    [] eventName = "Unstaked" -> handleUnstaked(log)
    [] eventName = "TipExecuted" -> handleTipExecuted(log)
    [] OTHER -> handlePoolClaimed(log)

\* The tables no handler writes.
otherTables == <<block_sync_state, game_sessions, pool_claims>>

\* pollEvents returns (or throws) and start() sleeps: the locals of pollEvents
\* are gone.
EndTick ==
  /\ pc' = "sleep"
  /\ hIdx' = 1
  /\ currentBlock' = 0
  /\ start' = 0

\* The loop "for (const handler of this.handlers)" moves to the next handler,
\* or pollEvents returns.
NextHandler ==
  IF hIdx = Len(handlers)
  THEN EndTick
  ELSE /\ pc' = "pair" /\ hIdx' = hIdx + 1 /\ start' = 0 /\ UNCHANGED currentBlock

\* start(): one iteration begins; pollEvents reads the chain head.
TickStart ==
  /\ pc = "sleep"
  /\ isRunning
  /\ currentBlock' = head
  /\ pc' = "resolve"
  /\ UNCHANGED <<startBlockCfg, isRunning, otherLoop, initializedStartBlock, hIdx, start, batch, faults>>
  /\ UNCHANGED <<chainVars, dbVars, reqVars, histVars>>

\* EffectiveStartBlock without the cached value: every tick resolves again.
EffectiveStartBlockEveryTick(cached, startBlock, blockNumber) ==
  IF startBlock = 0 THEN <<blockNumber>> ELSE <<startBlock>>

\* getEffectiveStartBlock lines 40-53: the value of this.initializedStartBlock
\* after the call, from the cached value (<<>> is null), the configured start
\* block and the block number the chain reports.
EffectiveStartBlock(cached, startBlock, blockNumber) ==
  IF cached # <<>> THEN cached
  ELSE IF startBlock = 0 THEN <<blockNumber>>
  ELSE <<startBlock>>

\* getEffectiveStartBlock: resolved once per process; START_BLOCK = 0 reads the
\* chain head again.
getEffectiveStartBlock ==
  /\ pc = "resolve"
  /\ initializedStartBlock' = EffectiveStartBlock(initializedStartBlock, startBlockCfg, head)
  /\ pc' = "pair"
  /\ hIdx' = 1
  /\ UNCHANGED <<startBlockCfg, isRunning, otherLoop, currentBlock, start, batch, faults>>
  /\ UNCHANGED <<chainVars, dbVars, reqVars, histVars>>

\* pollEvents lines 143-149: the pair reads its checkpoint and either skips or
\* starts its first sub-range.
PairBegin ==
  /\ pc = "pair"
  /\ LET c == handlers[hIdx].contractName
         syncState == getSyncState(c)
         fromBlock == FromBlock(syncState, initializedStartBlock[1])
     IN /\ firstFrom' = IF syncState = <<>> THEN [firstFrom EXCEPT ![c] = <<fromBlock>>]
                        ELSE firstFrom
        /\ IF fromBlock > currentBlock
           THEN NextHandler
           ELSE /\ start' = fromBlock /\ pc' = "fetch" /\ UNCHANGED <<hIdx, currentBlock>>
  /\ lastFail' = IF lastFail # <<>> /\ lastFail[1].pair = hIdx THEN <<>> ELSE lastFail
  /\ UNCHANGED <<startBlockCfg, isRunning, otherLoop, initializedStartBlock, batch, faults>>
  /\ UNCHANGED <<chainVars, dbVars, reqVars, handled, cpAtRestart, firstFetch, threw>>

\* pollEvents line 163: getLogs for [start, end] succeeds.
Fetch ==
  /\ pc = "fetch"
  /\ LET c == handlers[hIdx].contractName
         end == SubRangeEnd(start, currentBlock)
     IN /\ batch' = getLogs(hIdx, start, end)
        /\ firstFetch' = IF firstFetch[c] = <<>> THEN [firstFetch EXCEPT ![c] = <<start>>]
                         ELSE firstFetch
  /\ pc' = "dispatch"
  /\ UNCHANGED <<startBlockCfg, isRunning, otherLoop, initializedStartBlock, currentBlock, hIdx, start, faults>>
  /\ UNCHANGED <<chainVars, dbVars, reqVars, handled, firstFrom, cpAtRestart, threw, lastFail>>

\* getLogs throws (RPC failure): pollEvents throws, start() logs and sleeps.
FetchFail ==
  /\ pc = "fetch"
  /\ faults < MaxFaults
  /\ faults' = faults + 1
  /\ lastFail' = <<[pair |-> hIdx, s |-> start, e |-> SubRangeEnd(start, currentBlock)]>>
  /\ EndTick
  /\ UNCHANGED <<startBlockCfg, isRunning, otherLoop, initializedStartBlock, batch>>
  /\ UNCHANGED <<chainVars, dbVars, reqVars, handled, firstFrom, cpAtRestart, firstFetch, threw>>

\* pollEvents lines 165-171: the next log of the sub-range goes to the handler.
Dispatch ==
  /\ pc = "dispatch"
  /\ batch # <<>>
  /\ LET log == Head(batch)
     IN /\ Handle(handlers[hIdx].eventName, log)
        /\ handled' = handled \cup {<<handlers[hIdx].eventName, log.tx>>}
  /\ batch' = Tail(batch)
  /\ UNCHANGED <<startBlockCfg, isRunning, otherLoop, initializedStartBlock, pc, currentBlock, hIdx, start, faults>>
  /\ UNCHANGED <<chainVars, otherTables, reqVars, firstFrom, cpAtRestart, firstFetch, threw,
                 lastFail>>

\* The logs left when a throwing handler ends the inner loop.
RemainingAfterThrowNone(logs) == <<>>

\* pollEvents lines 165-171: the catch block logs the error and the loop goes
\* on with the logs after the one whose handler threw.
RemainingAfterThrow(logs) == Tail(logs)

\* pollEvents lines 165-171: the handler throws on the next log (the log
\* carries no decoded args, so the handler's first statement throws before it
\* has written anything); the error is caught and logged.
DispatchThrow ==
  /\ pc = "dispatch"
  /\ batch # <<>>
  /\ faults < MaxFaults
  /\ faults' = faults + 1
  /\ handled' = handled \cup {<<handlers[hIdx].eventName, Head(batch).tx>>}
  /\ threw' = threw \cup {<<handlers[hIdx].eventName, Head(batch).tx>>}
  /\ batch' = RemainingAfterThrow(batch)
  /\ UNCHANGED <<startBlockCfg, isRunning, otherLoop, initializedStartBlock, pc, currentBlock, hIdx, start>>
  /\ UNCHANGED <<chainVars, dbVars, reqVars, firstFrom, cpAtRestart, firstFetch, lastFail>>

\* The loop step with sub-ranges that share their boundary block.
NextStartOverlapping(s) == s + batchSize - 1

\* pollEvents line 155: start += batchSize.
NextStart(s) == s + batchSize

\* updateSyncState: the upsert of the contract's block_sync_state row.
updateSyncState(contractName, blockNumber) ==
  IF contractName \in DOMAIN block_sync_state
  THEN [block_sync_state EXCEPT ![contractName] = blockNumber]
  ELSE block_sync_state @@ (contractName :> blockNumber)

\* pollEvents line 173 and the loop step "start += batchSize".
Checkpoint ==
  /\ pc = "dispatch"
  /\ batch = <<>>
  /\ LET end == SubRangeEnd(start, currentBlock)
     IN /\ block_sync_state' = updateSyncState(handlers[hIdx].contractName, end)
        /\ IF NextStart(start) <= currentBlock
           THEN /\ start' = NextStart(start) /\ pc' = "fetch"
                /\ UNCHANGED <<hIdx, currentBlock>>
           ELSE NextHandler
  /\ UNCHANGED <<startBlockCfg, isRunning, otherLoop, initializedStartBlock, batch, faults>>
  /\ UNCHANGED <<players, time_purchases, yeet_events, staking_events, lost_found_pool,
                 time_consumptions, tips, pool_claim_history, game_sessions, pool_claims>>
  /\ UNCHANGED <<chainVars, reqVars, histVars>>

\* The calls in flight when the process dies.
KillRequests(reqs) ==
  [r \in DOMAIN reqs |->
     IF reqs[r].pc \in {"idle", "done"} THEN reqs[r] ELSE [reqs[r] EXCEPT !.pc = "crashed"]]

\* The process dies at any point and is started again: the fields of the
\* service object and the calls in flight are lost, the datastore is kept.
Crash ==
  /\ faults < MaxFaults
  /\ faults' = faults + 1
  /\ EndTick
  /\ batch' = <<>>
  /\ initializedStartBlock' = <<>>
  /\ creq' = KillRequests(creq)
  /\ treq' = KillRequests(treq)
  /\ clreq' = KillRequests(clreq)
  /\ cpAtRestart' = [c \in Contracts |-> getSyncState(c)]
  /\ firstFetch' = [c \in Contracts |-> <<>>]
  /\ lastFail' = <<>>
  /\ addreq' = KillRequests(addreq)
  /\ sreq' = KillRequests(sreq)
  /\ otherLoop' = <<>>
  /\ UNCHANGED <<startBlockCfg, isRunning, now, rcall, chainVars, dbVars, handled, firstFrom, threw>>

\* shutdown(signal) of index.ts, lines 115-123: the first signal calls
\* eventListenerService.stop(), which clears isRunning, and starts the 5 s
\* timer.
Stop ==
  /\ isRunning
  /\ isRunning' = FALSE
  /\ UNCHANGED <<startBlockCfg, otherLoop, initializedStartBlock, pc, currentBlock, hIdx, start, batch,
                 faults>>
  /\ UNCHANGED <<chainVars, dbVars, reqVars, histVars>>

\* start(): after the sleep the loop condition is false and start() returns.
LoopExit ==
  /\ pc = "sleep"
  /\ ~isRunning
  /\ pc' = "stopped"
  /\ UNCHANGED <<startBlockCfg, isRunning, otherLoop, initializedStartBlock, currentBlock, hIdx, start,
                 batch, faults>>
  /\ UNCHANGED <<chainVars, dbVars, reqVars, histVars>>

\* shutdown(signal) lines 128-131: the 5 s timer fires and process.exit(0)
\* ends the process wherever the loop is (a tick waits on RPC and datastore
\* calls and has no bound on its duration).
Exit ==
  /\ ~isRunning
  /\ pc # "exited"
  /\ pc' = "exited"
  /\ batch' = <<>>
  /\ otherLoop' = <<>>
  /\ UNCHANGED <<startBlockCfg, isRunning, initializedStartBlock, currentBlock, hIdx, start,
                 faults>>
  /\ UNCHANGED <<chainVars, dbVars, reqVars, histVars>>

\* The locals of a start() call whose loop is about to test this.isRunning.
NewLoop == [pc |-> "sleep", currentBlock |-> 0, hIdx |-> 1, start |-> 0, batch |-> <<>>]

\* start() called again: with isRunning set it warns and returns (no change);
\* with isRunning cleared it sets the flag and enters its own while loop. An
\* earlier call that has not returned yet keeps its locals and its loop.
Start ==
  /\ ~isRunning
  /\ pc # "exited"
  /\ isRunning' = TRUE
  /\ IF pc = "stopped"
     THEN /\ pc' = NewLoop.pc /\ hIdx' = NewLoop.hIdx /\ start' = NewLoop.start
          /\ currentBlock' = NewLoop.currentBlock /\ batch' = NewLoop.batch
          /\ UNCHANGED otherLoop
     ELSE /\ IF otherLoop = <<>> THEN TRUE ELSE otherLoop[1].pc = "stopped"
          /\ otherLoop' = <<NewLoop>>
          /\ UNCHANGED <<pc, currentBlock, hIdx, start, batch>>
  /\ UNCHANGED <<startBlockCfg, initializedStartBlock, faults>>
  /\ UNCHANGED <<chainVars, dbVars, reqVars, histVars>>

\* The running start() call reaches an await and the event loop resumes the
\* other one: the two calls exchange the roles of running and suspended.
Switch ==
  /\ otherLoop # <<>>
  /\ otherLoop[1].pc # "stopped"
  /\ pc # "exited"
  /\ pc' = otherLoop[1].pc
  /\ currentBlock' = otherLoop[1].currentBlock
  /\ hIdx' = otherLoop[1].hIdx
  /\ start' = otherLoop[1].start
  /\ batch' = otherLoop[1].batch
  /\ otherLoop' = <<[pc |-> pc, currentBlock |-> currentBlock, hIdx |-> hIdx,
                     start |-> start, batch |-> batch]>>
  /\ UNCHANGED <<startBlockCfg, isRunning, initializedStartBlock, faults>>
  /\ UNCHANGED <<chainVars, dbVars, reqVars, histVars>>

\* --------------------------------------------------------------- the chain
\* A block that arrives while a tick is past its reads of the head is seen by
\* the next tick at the earliest, exactly as if it had arrived after the tick:
\* the chain moves while the loop sleeps or is between its two reads.
BetweenTicks == pc \in {"sleep", "resolve"}

\* The chain produces batchSize blocks without events of the monitored
\* contracts.
NewBlocks ==
  /\ BetweenTicks
  /\ head + batchSize <= MaxHead
  /\ head' = head + batchSize
  /\ UNCHANGED <<chainLogs, mempool, receipts, timeBalances, txCount>>
  /\ UNCHANGED <<listenerVars, dbVars, reqVars, histVars>>

\* An outside user's transaction (purchaseTime, yeet, stake, unstake) is mined
\* in the next block and emits ev.
UserEvent(ev, w) ==
  /\ BetweenTicks
  /\ head < MaxHead
  /\ txCount < MaxTx
  /\ head' = head + 1
  /\ txCount' = txCount + 1
  /\ chainLogs' = chainLogs \cup
       {[tx |-> txCount + 1, ev |-> ev, blk |-> head + 1,
         player |-> w, to |-> w, amt |-> EventAmount(ev)]}
  /\ timeBalances' = IF ev = "TimePurchased"
                     THEN [timeBalances EXCEPT ![w] = @ + EventAmount(ev)]
                     ELSE timeBalances
  /\ UNCHANGED <<mempool, receipts>>
  /\ UNCHANGED <<listenerVars, dbVars, reqVars, histVars>>

\* ------------------------------------------------------------ initial state
\* The listener after construction.
ListenerInit ==
  /\ startBlockCfg \in StartBlockConfigs
  /\ initializedStartBlock = <<>>
  /\ pc = "sleep"
  /\ currentBlock = 0
  /\ hIdx = 1
  /\ start = 0
  /\ batch = <<>>
  /\ faults = 0
  /\ isRunning = TRUE
  /\ otherLoop = <<>>

\* The singleton pool row the migration inserts.
EmptyPool == [balance |-> 0, total_received |-> 0, total_claimed |-> 0, total_overflow |-> 0]

\* The datastore after the migrations: empty tables.
TablesInit ==
  /\ block_sync_state = <<>>
  /\ time_purchases = {}
  /\ yeet_events = {}
  /\ staking_events = {}
  /\ time_consumptions = <<>>
  /\ tips = <<>>
  /\ pool_claim_history = <<>>

HistInit ==
  /\ handled = {}
  /\ firstFrom = [c \in Contracts |-> <<>>]
  /\ cpAtRestart = [c \in Contracts |-> <<>>]
  /\ firstFetch = [c \in Contracts |-> <<>>]
  /\ threw = {}
  /\ lastFail = <<>>

\* No call in flight.
IdleRequest == [pc |-> "idle", session |-> 0, seconds |-> 0, row |-> 0, txHash |-> 0,
                err |-> "", read |-> 0,
                added |-> 0,   \* history: what the call added to the session's total
                attempt |-> 1,   \* retry(): the attempt of the submission that runs
                sent |-> 0]   \* history: transactions the call has sent to the chain
IdleTip == [pc |-> "idle", from |-> "", to |-> "", amount |-> 0, row |-> 0, txHash |-> 0,
            err |-> "", read |-> 0,
            warn |-> "",   \* the warning executeTip logged before returning null
            attempt |-> 1,   \* retry(): the attempt of the submission that runs
            sent |-> 0]   \* history: transactions the call has sent to the chain
IdleClaim == [pc |-> "idle", wallet |-> "", now |-> 0, cooldownState |-> <<>>, checkedAt |-> 0,
              allowed |-> FALSE, claimState |-> <<>>, newStreak |-> 0, poolState |-> EmptyPool,
              claimed |-> 0, txHash |-> 0, err |-> "",
              cooldownActive |-> FALSE, nextClaimTime |-> <<>>, streak |-> 0,
              poolBalanceAfter |-> 0,
              lastAtStart |-> <<>>,   \* history: last_claim_time stored when the call began
              poolAtStart |-> EmptyPool,   \* history: the pool row when the call began
              historyAtStart |-> 0]   \* history: number of history rows when the call began

IdleAdd == [pc |-> "idle", quarters |-> 0, poolState |-> EmptyPool, addedToPool |-> 0,
            overflow |-> 0, overflowToStaking |-> 0, overflowToOperations |-> 0, calls |-> 0]

\* A startSession call that has not begun.
IdleStart == [pc |-> "idle", wallet |-> "", err |-> "", id |-> 0]

\* No retry call made yet.
IdleRetry == [pc |-> "idle", maxAttempts |-> 0, retryIf |-> FALSE, attempt |-> 0,
              outcomes |-> <<>>, lastError |-> <<>>, result |-> <<>>]

Requests == {1, 2}

RequestsInit ==
  /\ creq = [r \in Requests |-> IdleRequest]
  /\ treq = [r \in Requests |-> IdleTip]
  /\ clreq = [r \in Requests |-> IdleClaim]
  /\ addreq = [r \in Requests |-> IdleAdd]
  /\ sreq = [r \in Requests |-> IdleStart]
  /\ rcall = IdleRetry
  /\ now = 0

ChainInit ==
  /\ head = 0
  /\ chainLogs = {}
  /\ mempool = {}
  /\ receipts = <<>>
  /\ txCount = 0

Init ==
  /\ ChainInit
  /\ timeBalances \in [Wallets -> InitialTimeBalances]
  /\ ListenerInit
  /\ TablesInit
  /\ lost_found_pool = EmptyPool
  /\ players = <<>>
  /\ game_sessions = <<>>
  /\ pool_claims = <<>>
  /\ RequestsInit
  /\ HistInit

Next ==
  \/ TickStart
  \/ getEffectiveStartBlock
  \/ PairBegin
  \/ Fetch
  \/ FetchFail
  \/ Dispatch
  \/ Checkpoint
  \/ Crash
  \/ NewBlocks
  \/ \E ev \in UserEvents, w \in Wallets : UserEvent(ev, w)

Spec == Init /\ [][Next]_vars

\* ------------------------------------------------- the request-driven path
\* The chain compares addresses as 20-byte values: the lower-cased address a
\* session row stores names the same account as its checksummed form.
ChainAddress(a) ==
  CASE a = "0xab" -> "0xAb"
    [] a = "0xcd" -> "0xCd"
    [] OTHER -> a

\* Seconds a client asks to consume in one request.
ConsumeAmounts == {100}

\* The message of the error simulateContract throws when ArcadeVault.consumeTime
\* reverts for lack of balance. The contract's revert string is not part of
\* this repository; it is taken to contain the word the route looks for.
SimulationRevertMessage == "execution reverted: Insufficient balance"

\* POST /sessions/:id/consume: the errors it turns into InsufficientBalanceError
\* (error.message.includes('Insufficient')).
IsInsufficientMessage(msg) ==
  msg \in {"Insufficient time balance", "execution reverted: Insufficient balance"}

\* The tables the request-driven path leaves alone.
indexerTables == <<block_sync_state, time_purchases, yeet_events, staking_events,
                   lost_found_pool, pool_claims, pool_claim_history>>

\* What no step of consumeTime touches.
consumeFrame == <<listenerVars, histVars, indexerTables, players, tips, treq, clreq, addreq, sreq, rcall, now,
                  head, chainLogs, receipts, timeBalances>>

\* consumeTime lines 10-21: the call begins, reads the session and validates it.
CT_GetSession(r, sessionId, seconds) ==
  /\ creq[r].pc = "idle"
  /\ creq' = [creq EXCEPT ![r] =
       IF sessionId \notin DOMAIN game_sessions
       THEN [@ EXCEPT !.pc = "done", !.err = "Session not found",
                      !.session = sessionId, !.seconds = seconds]
       ELSE IF game_sessions[sessionId].status # "active"
       THEN [@ EXCEPT !.pc = "done", !.err = "Session is not active",
                      !.session = sessionId, !.seconds = seconds]
       ELSE [@ EXCEPT !.pc = "balance", !.session = sessionId, !.seconds = seconds]]
  /\ UNCHANGED <<time_consumptions, game_sessions, mempool, txCount>>
  /\ UNCHANGED consumeFrame

\* consumeTime line 25 with the comparison left out.
BalanceCheckSkipped(balance, seconds) == FALSE

\* consumeTime line 25: balance < BigInt(seconds).
InsufficientBalance(balance, seconds) == balance < seconds

\* consumeTime lines 24-27: getTimeBalance and the comparison with seconds.
CT_CheckBalance(r) ==
  /\ creq[r].pc = "balance"
  /\ LET w == ChainAddress(game_sessions[creq[r].session].wallet_address)
     IN creq' = [creq EXCEPT ![r] =
          IF InsufficientBalance(timeBalances[w], creq[r].seconds)
          THEN [@ EXCEPT !.pc = "done", !.err = "Insufficient time balance"]
          ELSE [@ EXCEPT !.pc = "insert"]]
  /\ UNCHANGED <<time_consumptions, game_sessions, mempool, txCount>>
  /\ UNCHANGED consumeFrame

\* consumeTime lines 30-45: the pending row is inserted.
CT_Insert(r) ==
  /\ creq[r].pc = "insert"
  /\ time_consumptions' = Append(time_consumptions,
       [session_id |-> creq[r].session,
        wallet_address |-> toLowerCase(game_sessions[creq[r].session].wallet_address),
        seconds_consumed |-> creq[r].seconds,
        status |-> "pending", tx_hash |-> 0, error_message |-> ""])
  /\ creq' = [creq EXCEPT ![r].pc = "submit", ![r].row = Len(time_consumptions) + 1]
  /\ UNCHANGED <<game_sessions, mempool, txCount>>
  /\ UNCHANGED consumeFrame

\* The catch block of consumeTime without its update of the row.
FailConsumptionNoUpdate(r, msg) ==
  /\ UNCHANGED time_consumptions
  /\ creq' = [creq EXCEPT ![r].pc = "done", ![r].err = msg]

\* The catch block of consumeTime (lines 81-92): the row is marked failed with
\* the error's message and the error is thrown again.
FailConsumption(r, msg) ==
  /\ time_consumptions' = [time_consumptions EXCEPT
       ![creq[r].row].status = "failed", ![creq[r].row].error_message = msg]
  /\ creq' = [creq EXCEPT ![r].pc = "done", ![r].err = msg]

\* ArcadeVaultService.consumeTime: simulateContract against the latest block,
\* then writeContract; a revert in the simulation is thrown and caught by
\* consumeTime.
CT_Submit(r) ==
  /\ creq[r].pc = "submit"
  /\ LET w == ChainAddress(game_sessions[creq[r].session].wallet_address)
     IN IF timeBalances[w] < creq[r].seconds
        THEN /\ FailConsumption(r, SimulationRevertMessage)
             /\ UNCHANGED <<mempool, txCount>>
        ELSE /\ txCount' = txCount + 1
             /\ mempool' = mempool \cup
                  {[tx |-> txCount + 1, fn |-> "consumeTime", player |-> w, to |-> w,
                    amt |-> creq[r].seconds]}
             /\ creq' = [creq EXCEPT ![r].pc = "markSubmitted", ![r].txHash = txCount + 1,
                                     ![r].sent = creq[r].sent + 1]
             /\ UNCHANGED time_consumptions
  /\ UNCHANGED game_sessions
  /\ UNCHANGED consumeFrame

\* retry(): an attempt threw an error isRetryableError accepts. The last
\* attempt throws it to consumeTime's catch block, an earlier one sleeps and
\* runs the closure again.
CT_AfterRetryable(r, sentNow) ==
  IF creq[r].attempt = maxAttempts
  THEN /\ time_consumptions' = [time_consumptions EXCEPT
            ![creq[r].row].status = "failed",
            ![creq[r].row].error_message = "HTTP request failed. Status: 503"]
       /\ creq' = [creq EXCEPT ![r].pc = "done", ![r].err = "HTTP request failed. Status: 503",
                               ![r].sent = creq[r].sent + sentNow]
  ELSE /\ creq' = [creq EXCEPT ![r].attempt = creq[r].attempt + 1,
                               ![r].sent = creq[r].sent + sentNow]
       /\ UNCHANGED time_consumptions

\* An attempt of ArcadeVaultService.consumeTime fails with a retryable error
\* before anything was sent (simulateContract or the send got 502/503, a
\* timeout, a connection error).
CT_SubmitRetry(r) ==
  /\ creq[r].pc = "submit"
  /\ CT_AfterRetryable(r, 0)
  /\ UNCHANGED <<game_sessions, mempool, txCount>>
  /\ UNCHANGED consumeFrame

\* An attempt of ArcadeVaultService.consumeTime: the simulation passes and
\* writeContract's request reaches the node, which accepts the transaction,
\* but the answer is lost (gateway 502/503, timeout, connection reset) and
\* writeContract throws a retryable error.
CT_SubmitLost(r) ==
  /\ creq[r].pc = "submit"
  /\ LET w == ChainAddress(game_sessions[creq[r].session].wallet_address)
     IN /\ timeBalances[w] >= creq[r].seconds
        /\ txCount' = txCount + 1
        /\ mempool' = mempool \cup
             {[tx |-> txCount + 1, fn |-> "consumeTime", player |-> w, to |-> w,
               amt |-> creq[r].seconds]}
  /\ CT_AfterRetryable(r, 1)
  /\ UNCHANGED game_sessions
  /\ UNCHANGED consumeFrame

\* ArcadeVaultService.consumeTime throws an error that is not a revert (the
\* RPC endpoint refuses or cannot be reached): no transaction was sent.
CT_SubmitFail(r) ==
  /\ creq[r].pc = "submit"
  /\ FailConsumption(r, "HTTP request failed")
  /\ UNCHANGED <<game_sessions, mempool, txCount>>
  /\ UNCHANGED consumeFrame

\* The update of lines 55-58 without the transaction hash.
SubmittedRowNoHash(row, txHash) == [row EXCEPT !.status = "submitted"]

\* The row after update({ tx_hash: txHash, status: 'submitted' }).
SubmittedRow(row, txHash) == [row EXCEPT !.status = "submitted", !.tx_hash = txHash]

\* consumeTime lines 55-58: the row gets the transaction hash and submitted.
CT_MarkSubmitted(r) ==
  /\ creq[r].pc = "markSubmitted"
  /\ time_consumptions' = [time_consumptions EXCEPT
       ![creq[r].row] = SubmittedRow(time_consumptions[creq[r].row], creq[r].txHash)]
  /\ creq' = [creq EXCEPT ![r].pc = "wait"]
  /\ UNCHANGED <<game_sessions, mempool, txCount>>
  /\ UNCHANGED consumeFrame

\* waitForConsumption returns: the receipt's status is success or reverted.
CT_Wait(r) ==
  /\ creq[r].pc = "wait"
  /\ creq[r].txHash \in DOMAIN receipts
  /\ IF receipts[creq[r].txHash] = "success"
     THEN /\ creq' = [creq EXCEPT ![r].pc = "readSession"]
          /\ UNCHANGED time_consumptions
     ELSE FailConsumption(r, "Transaction failed")
  /\ UNCHANGED <<game_sessions, mempool, txCount>>
  /\ UNCHANGED consumeFrame

\* waitForTransactionReceipt gives up on a transaction that is not mined in
\* time and throws.
CT_WaitTimeout(r) ==
  /\ creq[r].pc = "wait"
  /\ creq[r].txHash \notin DOMAIN receipts
  /\ FailConsumption(r, "Timed out while waiting for transaction")
  /\ UNCHANGED <<game_sessions, mempool, txCount>>
  /\ UNCHANGED consumeFrame

\* updateSessionTimeConsumed lines 141-144: the session's total is read.
CT_ReadSession(r) ==
  /\ creq[r].pc = "readSession"
  /\ creq' = [creq EXCEPT ![r].pc = "writeSession",
                          ![r].read = game_sessions[creq[r].session].total_time_consumed]
  /\ UNCHANGED <<time_consumptions, game_sessions, mempool, txCount>>
  /\ UNCHANGED consumeFrame

\* updateSessionTimeConsumed lines 146-152: the total read plus the seconds is
\* written.
CT_WriteSession(r) ==
  /\ creq[r].pc = "writeSession"
  /\ game_sessions' = [game_sessions EXCEPT
       ![creq[r].session].total_time_consumed = creq[r].read + creq[r].seconds]
  /\ creq' = [creq EXCEPT ![r].pc = "confirm",
                          ![r].added = creq[r].read + creq[r].seconds
                                       - game_sessions[creq[r].session].total_time_consumed]
  /\ UNCHANGED <<time_consumptions, mempool, txCount>>
  /\ UNCHANGED consumeFrame

\* consumeTime lines 70-77: the row is marked confirmed by id and returned.
CT_MarkConfirmed(r) ==
  /\ creq[r].pc = "confirm"
  /\ time_consumptions' = [time_consumptions EXCEPT ![creq[r].row].status = "confirmed"]
  /\ creq' = [creq EXCEPT ![r].pc = "done"]
  /\ UNCHANGED <<game_sessions, mempool, txCount>>
  /\ UNCHANGED consumeFrame

\* One step of the consumeTime call r after its start.
ConsumeStep(r) ==
  \/ CT_CheckBalance(r)
  \/ CT_Insert(r)
  \/ CT_Submit(r)
  \/ CT_MarkSubmitted(r)
  \/ CT_Wait(r)
  \/ CT_ReadSession(r)
  \/ CT_WriteSession(r)
  \/ CT_MarkConfirmed(r)

\* Amounts (in wei) of the tip commands.
TipAmounts == {4}

\* What no step of executeTip touches.
tipFrame == <<listenerVars, histVars, indexerTables, time_consumptions, game_sessions, creq,
              clreq, addreq, sreq, rcall, now, head, chainLogs, receipts, timeBalances>>

\* What neynarClient.getUserByFid can answer for a user whose verified
\* addresses are among addrs: null (no such user, or the request failed), a
\* user without verified addresses, or a user with one.
NeynarLookups(addrs) ==
  {[found |-> FALSE, verifiedAddresses |-> <<>>], [found |-> TRUE, verifiedAddresses |-> <<>>]}
    \cup {[found |-> TRUE, verifiedAddresses |-> <<a>>] : a \in addrs}

\* The test of lines 70 and 77 without the look at verifiedAddresses.
HasVerifiedAddressFoundOnly(user) == user.found

\* The negation of lines 70 and 77: !user || user.verifiedAddresses.length === 0.
HasVerifiedAddress(user) == user.found /\ Len(user.verifiedAddresses) # 0

\* user.verifiedAddresses[0] (lines 82-83); undefined on an empty array.
FirstVerifiedAddress(user) ==
  IF Len(user.verifiedAddresses) = 0 THEN "undefined" ELSE user.verifiedAddresses[1]

\* executeTip lines 62-103: both users are resolved; without a verified
\* address on either side the call logs a warning and returns null, otherwise
\* the pending row is inserted.
TP_Begin(r, fromUser, toUser, amount) ==
  /\ treq[r].pc = "idle"
  /\ IF ~HasVerifiedAddress(fromUser)
     THEN /\ treq' = [treq EXCEPT ![r].pc = "done",
                                  ![r].warn = "Sender has no verified address"]
          /\ UNCHANGED tips
     ELSE IF ~HasVerifiedAddress(toUser)
     THEN /\ treq' = [treq EXCEPT ![r].pc = "done",
                                  ![r].warn = "Recipient has no verified address"]
          /\ UNCHANGED tips
     ELSE LET from == FirstVerifiedAddress(fromUser)
              to == FirstVerifiedAddress(toUser)
          IN /\ tips' = Append(tips,
                  [from_wallet |-> toLowerCase(from), to_wallet |-> toLowerCase(to),
                   amount_wei |-> amount, status |-> "pending", tx_hash |-> 0,
                   error_message |-> ""])
             /\ treq' = [treq EXCEPT ![r] = [@ EXCEPT !.pc = "submit", !.from = from, !.to = to,
                                                      !.amount = amount, !.row = Len(tips) + 1]]
  /\ UNCHANGED <<players, mempool, txCount>>
  /\ UNCHANGED tipFrame

\* TipBotService.executeTip: simulateContract, then writeContract.
TP_Submit(r) ==
  /\ treq[r].pc = "submit"
  /\ txCount' = txCount + 1
  /\ mempool' = mempool \cup
       {[tx |-> txCount + 1, fn |-> "executeTip", player |-> treq[r].from, to |-> treq[r].to,
         amt |-> treq[r].amount]}
  /\ treq' = [treq EXCEPT ![r].pc = "markSubmitted", ![r].txHash = txCount + 1,
                          ![r].sent = treq[r].sent + 1]
  /\ UNCHANGED <<players, tips>>
  /\ UNCHANGED tipFrame

\* An attempt of TipBotService.executeTip: writeContract's request reaches
\* the node, which accepts the transaction, but the answer is lost and
\* writeContract throws a retryable error. retry() runs the closure again, or
\* throws to executeTip's catch block after the last attempt.
TP_SubmitLost(r) ==
  /\ treq[r].pc = "submit"
  /\ txCount' = txCount + 1
  /\ mempool' = mempool \cup
       {[tx |-> txCount + 1, fn |-> "executeTip", player |-> treq[r].from, to |-> treq[r].to,
         amt |-> treq[r].amount]}
  /\ IF treq[r].attempt = maxAttempts
     THEN /\ tips' = [tips EXCEPT ![treq[r].row].status = "failed",
                       ![treq[r].row].error_message = "HTTP request failed. Status: 503"]
          /\ treq' = [treq EXCEPT ![r].pc = "done", ![r].err = "HTTP request failed. Status: 503",
                                  ![r].sent = treq[r].sent + 1]
     ELSE /\ treq' = [treq EXCEPT ![r].attempt = treq[r].attempt + 1,
                                  ![r].sent = treq[r].sent + 1]
          /\ UNCHANGED tips
  /\ UNCHANGED players
  /\ UNCHANGED tipFrame

\* executeTip lines 110-113: the row gets the transaction hash and submitted.
TP_MarkSubmitted(r) ==
  /\ treq[r].pc = "markSubmitted"
  /\ tips' = [tips EXCEPT ![treq[r].row].status = "submitted",
                          ![treq[r].row].tx_hash = treq[r].txHash]
  /\ treq' = [treq EXCEPT ![r].pc = "wait"]
  /\ UNCHANGED <<players, mempool, txCount>>
  /\ UNCHANGED tipFrame

\* The catch block of executeTip (lines 141-151): the row is marked failed and
\* the call returns null.
FailTip(r, msg) ==
  /\ tips' = [tips EXCEPT ![treq[r].row].status = "failed",
                          ![treq[r].row].error_message = msg]
  /\ treq' = [treq EXCEPT ![r].pc = "done", ![r].err = msg]

\* waitForTip returns; on success the row is marked confirmed by id (lines
\* 116-122).
TP_Wait(r) ==
  /\ treq[r].pc = "wait"
  /\ treq[r].txHash \in DOMAIN receipts
  /\ IF receipts[treq[r].txHash] = "success"
     THEN /\ tips' = [tips EXCEPT ![treq[r].row].status = "confirmed"]
          /\ treq' = [treq EXCEPT ![r].pc = "readSender"]
     ELSE FailTip(r, "Transaction failed")
  /\ UNCHANGED <<players, mempool, txCount>>
  /\ UNCHANGED tipFrame

\* waitForTip: waitForTransactionReceipt with timeout 60_000 throws when the
\* transaction is not mined in time.
TP_WaitTimeout(r) ==
  /\ treq[r].pc = "wait"
  /\ treq[r].txHash \notin DOMAIN receipts
  /\ FailTip(r, "Timed out while waiting for transaction")
  /\ UNCHANGED <<players, mempool, txCount>>
  /\ UNCHANGED tipFrame

\* updatePlayerTipStats lines 178-182: the sender's row is read (0 when there
\* is none).
TP_ReadSender(r) ==
  /\ treq[r].pc = "readSender"
  /\ LET p == getPlayer(players, treq[r].from)
     IN treq' = [treq EXCEPT ![r].pc = "writeSender",
                             ![r].read = IF p = <<>> THEN 0 ELSE p[1].total_tips_sent]
  /\ UNCHANGED <<players, tips, mempool, txCount>>
  /\ UNCHANGED tipFrame

\* updatePlayerTipStats lines 184-189: the value read plus the amount is written.
TP_WriteSender(r) ==
  /\ treq[r].pc = "writeSender"
  /\ players' = IF getPlayer(players, treq[r].from) # <<>>
                THEN [players EXCEPT ![toLowerCase(treq[r].from)].total_tips_sent =
                                        treq[r].read + treq[r].amount]
                ELSE players
  /\ treq' = [treq EXCEPT ![r].pc = "readRecipient"]
  /\ UNCHANGED <<tips, mempool, txCount>>
  /\ UNCHANGED tipFrame

\* updatePlayerTipStats lines 192-196: the recipient's row is read.
TP_ReadRecipient(r) ==
  /\ treq[r].pc = "readRecipient"
  /\ LET p == getPlayer(players, treq[r].to)
     IN treq' = [treq EXCEPT ![r].pc = "writeRecipient",
                             ![r].read = IF p = <<>> THEN 0 ELSE p[1].total_tips_received]
  /\ UNCHANGED <<players, tips, mempool, txCount>>
  /\ UNCHANGED tipFrame

\* updatePlayerTipStats lines 198-203, then the notification (which catches its
\* own errors) and the return of the confirmed tip.
TP_WriteRecipient(r) ==
  /\ treq[r].pc = "writeRecipient"
  /\ players' = IF getPlayer(players, treq[r].to) # <<>>
                THEN [players EXCEPT ![toLowerCase(treq[r].to)].total_tips_received =
                                        treq[r].read + treq[r].amount]
                ELSE players
  /\ treq' = [treq EXCEPT ![r].pc = "done"]
  /\ UNCHANGED <<tips, mempool, txCount>>
  /\ UNCHANGED tipFrame

\* One step of the executeTip call r after its start.
TipStep(r) ==
  \/ TP_Submit(r)
  \/ TP_MarkSubmitted(r)
  \/ TP_Wait(r)
  \/ TP_WaitTimeout(r)
  \/ TP_ReadSender(r)
  \/ TP_WriteSender(r)
  \/ TP_ReadRecipient(r)
  \/ TP_WriteRecipient(r)

\* A transaction of the game server is mined in the next block. consumeTime
\* reverts when the player's balance is smaller than the seconds; a
\* transaction that succeeds emits its event.
Mine(t) ==
  /\ BetweenTicks
  /\ t \in mempool
  /\ head < MaxHead
  /\ head' = head + 1
  /\ mempool' = mempool \ {t}
  /\ LET ok == t.fn \in {"executeTip", "claim"} \/ timeBalances[t.player] >= t.amt
     IN /\ receipts' = receipts @@ (t.tx :> IF ok THEN "success" ELSE "reverted")
        /\ chainLogs' = IF ok
                        THEN chainLogs \cup
                               {[tx |-> t.tx,
                                 ev |-> CASE t.fn = "executeTip" -> "TipExecuted"
                                          [] t.fn = "claim" -> "Claimed"
                                          [] OTHER -> "TimeConsumed",
                                 blk |-> head + 1, player |-> t.player, to |-> t.to,
                                 amt |-> t.amt]}
                        ELSE chainLogs
        /\ timeBalances' = IF ok /\ t.fn = "consumeTime"
                           THEN [timeBalances EXCEPT ![t.player] = @ - t.amt]
                           ELSE timeBalances
  /\ UNCHANGED txCount
  /\ UNCHANGED <<listenerVars, dbVars, reqVars, histVars>>

\* A payout is mined but reverts: PoolPayout's state (its token balance, its
\* game server) changed between simulateContract and the inclusion of the
\* transaction. The receipt has status reverted and no event is emitted.
MineReverted(t) ==
  /\ BetweenTicks
  /\ t \in mempool
  /\ t.fn = "claim"
  /\ head < MaxHead
  /\ head' = head + 1
  /\ mempool' = mempool \ {t}
  /\ receipts' = receipts @@ (t.tx :> "reverted")
  /\ UNCHANGED <<chainLogs, timeBalances, txCount>>
  /\ UNCHANGED <<listenerVars, dbVars, reqVars, histVars>>

\* A player has opened a session: startSession has ensured the player row and
\* inserted the active session.
SessionStarted(w) ==
  /\ players = ensurePlayer(<<>>, w)
  /\ game_sessions = <<[wallet_address |-> toLowerCase(w), status |-> "active",
                        total_time_consumed |-> 0]>>

\* The system with one open session, before any request.
SettleInit ==
  /\ ChainInit
  /\ timeBalances \in [Wallets -> InitialTimeBalances]
  /\ ListenerInit
  /\ TablesInit
  /\ lost_found_pool = EmptyPool
  /\ \E w \in Wallets : SessionStarted(w)
  /\ pool_claims = <<>>
  /\ RequestsInit
  /\ HistInit

\* The indexer loop.
IndexerStep ==
  \/ TickStart
  \/ getEffectiveStartBlock
  \/ PairBegin
  \/ Fetch
  \/ Dispatch
  \/ Checkpoint

\* The indexer, one consumeTime call and one tip command in one process, and
\* the chain mining their transactions.
SettleNext ==
  \/ IndexerStep
  \/ FetchFail
  \/ Crash
  \/ \E t \in mempool : Mine(t)
  \/ \E seconds \in ConsumeAmounts : CT_GetSession(1, 1, seconds)
  \/ ConsumeStep(1)
  \/ CT_WaitTimeout(1)
  \/ \E fromUser \in NeynarLookups(Wallets), toUser \in NeynarLookups({TipRecipient}),
        amount \in TipAmounts :
       TP_Begin(1, fromUser, toUser, amount)
  \/ TipStep(1)

SettleSpec == SettleInit /\ [][SettleNext]_vars

\* A call that is not running: not started, returned, or lost in a crash.
NotRunning(req) == req.pc \in {"idle", "done", "crashed"}

\* The same system with one call in flight at a time: a call starts when the
\* other kind of call is not running.
SerialNext ==
  \/ IndexerStep
  \/ FetchFail
  \/ Crash
  \/ \E t \in mempool : Mine(t)
  \/ \E seconds \in ConsumeAmounts : NotRunning(treq[1]) /\ CT_GetSession(1, 1, seconds)
  \/ ConsumeStep(1)
  \/ CT_WaitTimeout(1)
  \/ \E fromUser \in NeynarLookups(Wallets), toUser \in NeynarLookups({TipRecipient}),
        amount \in TipAmounts :
       NotRunning(creq[1]) /\ TP_Begin(1, fromUser, toUser, amount)
  \/ TipStep(1)

\* ... with the scheduling the runtime gives: the loop and every call in
\* flight keep taking steps, and the chain keeps mining. Crashes, timeouts and
\* failed RPC calls are not forced, and there are at most MaxFaults crashes
\* and failed RPC calls.
FairSettleSpec ==
  /\ SettleInit
  /\ [][SerialNext]_vars
  /\ WF_vars(IndexerStep)
  /\ WF_vars(ConsumeStep(1))
  /\ WF_vars(TipStep(1))
  /\ SF_vars(\E t \in mempool : Mine(t))

\* Two consumeTime calls for the same session and the chain, nothing else.
RaceNext ==
  \/ \E r \in Requests, seconds \in ConsumeAmounts : CT_GetSession(r, 1, seconds)
  \/ \E r \in Requests : ConsumeStep(r)
  \/ \E t \in mempool : Mine(t)

RaceSpec == SettleInit /\ [][RaceNext]_vars

\* ---------------------------------------------------- LostFoundPoolService
\* The instants (in milliseconds) the clock visits: each midnight-to-midnight
\* boundary of the model, one millisecond before it and one after it.
TimePoints == {d * COOLDOWN_MS + e : d \in 0..MaxDays, e \in {-1, 0, 1}} \cap Nat

\* Quarters in the pool when the model starts.
InitialPoolBalances == {0, 3, 5}

\* getClaimState(walletAddress): the row keyed by the lower-cased address, or
\* null.
getClaimState(w) ==
  IF toLowerCase(w) \in DOMAIN pool_claims THEN <<pool_claims[toLowerCase(w)]>> ELSE <<>>

\* canClaim line 173 with the comparison made inclusive.
CooldownActiveInclusive(timeSinceLastClaim) == timeSinceLastClaim <= COOLDOWN_MS

\* canClaim line 173: the cooldown still runs.
CooldownActive(timeSinceLastClaim) == timeSinceLastClaim < COOLDOWN_MS

\* canClaim's answer from the row it read and Date.now().
canClaimAllowed(claimState, dateNow) ==
  IF claimState = <<>> \/ claimState[1].last_claim_time = <<>>
  THEN TRUE
  ELSE ~CooldownActive(dateNow - claimState[1].last_claim_time[1])

\* calculateNewStreak with the upper end of the window exclusive.
calculateNewStreakExclusive(lastClaimTime, currentStreak, t) ==
  IF lastClaimTime = <<>> THEN 1
  ELSE LET ms == t - lastClaimTime[1]
       IN IF ms >= 24 * (1000 * 60 * 60) /\ ms < 48 * (1000 * 60 * 60)
          THEN currentStreak + 1
          ELSE IF ms > 48 * (1000 * 60 * 60) THEN 1
          ELSE currentStreak

\* calculateNewStreak: hoursSinceLastClaim = ms / (1000 * 60 * 60) is compared
\* with 24 and 48; the division is exact enough that the comparisons are
\* those of ms with 24 and 48 times the divisor.
calculateNewStreak(lastClaimTime, currentStreak, t) ==
  IF lastClaimTime = <<>> THEN 1
  ELSE LET ms == t - lastClaimTime[1]
       IN IF ms >= 24 * (1000 * 60 * 60) /\ ms <= 48 * (1000 * 60 * 60)
          THEN currentStreak + 1
          ELSE IF ms > 48 * (1000 * 60 * 60) THEN 1
          ELSE currentStreak

\* getNextResetTime(afterTimestamp): Date.UTC(year, month, date + 1, 0, 0, 0, 0)
\* of the timestamp's UTC date, the midnight that ends its UTC day. A UTC day
\* is 24 * 60 * 60 * 1000 milliseconds.
getNextResetTime(afterTimestamp) ==
  ((afterTimestamp \div (24 * 60 * 60 * 1000)) + 1) * (24 * 60 * 60 * 1000)

\* claimFromPool line 246 without its return: a rejected call goes on.
AfterCooldownNoReturn(allowed) == "state"

\* claimFromPool line 246: where the call continues after canClaim.
AfterCooldown(allowed) == IF allowed THEN "state" ELSE "rejected"

\* getMaxClaimable with the middle tier starting at a streak of 3.
getMaxClaimableLateTier(streak) ==
  IF streak >= 4 THEN 4 ELSE IF streak >= 3 THEN 2 ELSE 1

\* getMaxClaimable(streak)
getMaxClaimable(streak) ==
  IF streak >= 4 THEN 4 ELSE IF streak >= 2 THEN 2 ELSE 1

\* getClaimInfo(walletAddress): canClaim's answer and the claim state row give
\* canClaim, streak, maxClaimable = getMaxClaimable(allowed ? streak + 1 :
\* streak) and totalClaimed.
getClaimInfo(claimState, dateNow) ==
  LET allowed == canClaimAllowed(claimState, dateNow)
      streak == IF claimState = <<>> THEN 0 ELSE claimState[1].streak
  IN [canClaim |-> allowed,
      streak |-> streak,
      maxClaimable |-> getMaxClaimable(IF allowed THEN streak + 1 ELSE streak),
      totalClaimed |-> IF claimState = <<>> THEN 0 ELSE claimState[1].total_claimed]

\* What no step of claimFromPool touches.
claimFrame == <<listenerVars, histVars, block_sync_state, players, time_purchases,
                yeet_events, staking_events, time_consumptions, tips, game_sessions,
                creq, treq, addreq, sreq, rcall, now, head, chainLogs, receipts, timeBalances>>

\* claimFromPool line 242 and canClaim line 152: the call takes Date.now() and
\* canClaim reads the claim state.
CL_Begin(r, w) ==
  /\ clreq[r].pc = "idle"
  /\ clreq' = [clreq EXCEPT ![r] =
       [@ EXCEPT !.pc = "cooldown", !.wallet = w, !.now = now,
                 !.cooldownState = getClaimState(w),
                 !.lastAtStart = IF getClaimState(w) = <<>> THEN <<>>
                                 ELSE getClaimState(w)[1].last_claim_time,
                 !.poolAtStart = lost_found_pool,
                 !.historyAtStart = Len(pool_claim_history)]]
  /\ UNCHANGED <<lost_found_pool, pool_claims, pool_claim_history, mempool, txCount>>
  /\ UNCHANGED claimFrame

\* canClaim lines 154-185: the cooldown is checked against Date.now(); a
\* rejection carries getNextResetTime(lastClaimTime).
CL_Cooldown(r) ==
  /\ clreq[r].pc = "cooldown"
  /\ LET allowed == canClaimAllowed(clreq[r].cooldownState, now)
     IN clreq' = [clreq EXCEPT ![r] =
          [@ EXCEPT !.pc = AfterCooldown(allowed),
                    !.checkedAt = now, !.allowed = allowed,
                    !.nextClaimTime =
                       IF allowed THEN <<>>
                       ELSE <<getNextResetTime(
                                clreq[r].cooldownState[1].last_claim_time[1])>>]]
  /\ UNCHANGED <<lost_found_pool, pool_claims, pool_claim_history, mempool, txCount>>
  /\ UNCHANGED claimFrame

\* claimFromPool lines 246-255: the rejected call reads the claim state and the
\* pool and returns claimed 0 with cooldownActive.
CL_Rejected(r) ==
  /\ clreq[r].pc = "rejected"
  /\ LET claimState == getClaimState(clreq[r].wallet)
     IN clreq' = [clreq EXCEPT ![r] =
          [@ EXCEPT !.pc = "done", !.claimed = 0, !.cooldownActive = TRUE,
                    !.poolBalanceAfter = lost_found_pool.balance,
                    !.streak = IF claimState = <<>> THEN 0 ELSE claimState[1].streak]]
  /\ UNCHANGED <<lost_found_pool, pool_claims, pool_claim_history, mempool, txCount>>
  /\ UNCHANGED claimFrame

\* claimFromPool lines 258-266: the claim state is read again and the new
\* streak computed from the Date.now() of line 242.
CL_ReadState(r) ==
  /\ clreq[r].pc = "state"
  /\ LET claimState == getClaimState(clreq[r].wallet)
         currentStreak == IF claimState = <<>> THEN 0 ELSE claimState[1].streak
         lastClaimTime == IF claimState = <<>> THEN <<>> ELSE claimState[1].last_claim_time
     IN clreq' = [clreq EXCEPT ![r] =
          [@ EXCEPT !.pc = "pool", !.claimState = claimState,
                    !.newStreak = calculateNewStreak(lastClaimTime, currentStreak,
                                                     clreq[r].now)]]
  /\ UNCHANGED <<lost_found_pool, pool_claims, pool_claim_history, mempool, txCount>>
  /\ UNCHANGED claimFrame

\* claimFromPool lines 267-277: the pool is read; nothing to claim returns.
CL_ReadPool(r) ==
  /\ clreq[r].pc = "pool"
  /\ LET claimed == Min(getMaxClaimable(clreq[r].newStreak), lost_found_pool.balance)
     IN clreq' = [clreq EXCEPT ![r] =
          [@ EXCEPT !.pc = IF claimed = 0 THEN "done" ELSE "chain",
                    !.poolState = lost_found_pool, !.claimed = claimed,
                    !.poolBalanceAfter = IF claimed = 0 THEN lost_found_pool.balance ELSE 0,
                    !.streak = IF claimed = 0 THEN clreq[r].newStreak ELSE 0,
                    !.nextClaimTime = IF claimed = 0 THEN <<getNextResetTime(clreq[r].now)>>
                                      ELSE <<>>]]
  /\ UNCHANGED <<lost_found_pool, pool_claims, pool_claim_history, mempool, txCount>>
  /\ UNCHANGED claimFrame

\* executeOnChainClaim lines 343-358: the payout is simulated and sent, or the
\* simulation throws and claimFromPool throws.
CL_Submit(r, accepted) ==
  /\ clreq[r].pc = "chain"
  /\ IF accepted
     THEN /\ txCount' = txCount + 1
          /\ mempool' = mempool \cup
               {[tx |-> txCount + 1, fn |-> "claim", player |-> ChainAddress(clreq[r].wallet),
                 to |-> ChainAddress(clreq[r].wallet),
                 amt |-> clreq[r].claimed * QUARTER_BLOC]}
          /\ clreq' = [clreq EXCEPT ![r].pc = "receipt", ![r].txHash = txCount + 1]
     ELSE /\ clreq' = [clreq EXCEPT ![r].pc = "done", ![r].err = "execution reverted"]
          /\ UNCHANGED <<mempool, txCount>>
  /\ UNCHANGED <<lost_found_pool, pool_claims, pool_claim_history>>
  /\ UNCHANGED claimFrame

\* executeOnChainClaim line 361: the receipt arrives.
CL_Receipt(r) ==
  /\ clreq[r].pc = "receipt"
  /\ clreq[r].txHash \in DOMAIN receipts
  /\ clreq' = [clreq EXCEPT ![r].pc = "updatePool"]
  /\ UNCHANGED <<lost_found_pool, pool_claims, pool_claim_history, mempool, txCount>>
  /\ UNCHANGED claimFrame

\* The update of lines 290-298 without total_claimed.
PoolAfterClaimBalanceOnly(pool, poolState, claimed) ==
  [pool EXCEPT !.balance = poolState.balance - claimed]

\* The pool row after update({ balance: newPoolBalance, total_claimed:
\* poolState.totalClaimed + claimed }).
PoolAfterClaim(pool, poolState, claimed) ==
  [pool EXCEPT !.balance = poolState.balance - claimed,
               !.total_claimed = poolState.total_claimed + claimed]

\* executeOnChainClaim line 361: waitForTransactionReceipt throws because the
\* transaction was not mined in time; claimFromPool logs and throws.
CL_ReceiptTimeout(r) ==
  /\ clreq[r].pc = "receipt"
  /\ clreq[r].txHash \notin DOMAIN receipts
  /\ clreq' = [clreq EXCEPT ![r].pc = "done",
                            ![r].err = "Timed out while waiting for transaction"]
  /\ UNCHANGED <<lost_found_pool, pool_claims, pool_claim_history, mempool, txCount>>
  /\ UNCHANGED claimFrame

\* claimFromPool lines 290-298: the pool row is written from the state read.
CL_UpdatePool(r) ==
  /\ clreq[r].pc = "updatePool"
  /\ lost_found_pool' = PoolAfterClaim(lost_found_pool, clreq[r].poolState, clreq[r].claimed)
  /\ clreq' = [clreq EXCEPT ![r].pc = "upsert"]
  /\ UNCHANGED <<pool_claims, pool_claim_history, mempool, txCount>>
  /\ UNCHANGED claimFrame

\* claimFromPool lines 301-315: the claim state is upserted with the time of
\* this statement and the new streak.
CL_Upsert(r) ==
  /\ clreq[r].pc = "upsert"
  /\ LET w == toLowerCase(clreq[r].wallet)
         row == [last_claim_time |-> <<now>>, streak |-> clreq[r].newStreak,
                 total_claimed |-> (IF clreq[r].claimState = <<>> THEN 0
                                    ELSE clreq[r].claimState[1].total_claimed)
                                   + clreq[r].claimed]
     IN pool_claims' = IF w \in DOMAIN pool_claims
                       THEN [pool_claims EXCEPT ![w] = row]
                       ELSE pool_claims @@ (w :> row)
  /\ clreq' = [clreq EXCEPT ![r].pc = "history"]
  /\ UNCHANGED <<lost_found_pool, pool_claim_history, mempool, txCount>>
  /\ UNCHANGED claimFrame

\* claimFromPool lines 320-337: the history row is inserted and the result
\* returned.
CL_History(r) ==
  /\ clreq[r].pc = "history"
  /\ pool_claim_history' = Append(pool_claim_history,
       [wallet_address |-> toLowerCase(clreq[r].wallet),
        quarters_claimed |-> clreq[r].claimed,
        streak_at_claim |-> clreq[r].newStreak,
        pool_balance_after |-> clreq[r].poolState.balance - clreq[r].claimed,
        tx_hash |-> clreq[r].txHash])
  /\ clreq' = [clreq EXCEPT ![r] =
       [@ EXCEPT !.pc = "done",
                 !.poolBalanceAfter = clreq[r].poolState.balance - clreq[r].claimed,
                 !.streak = clreq[r].newStreak,
                 !.nextClaimTime = <<getNextResetTime(clreq[r].now)>>]]
  /\ UNCHANGED <<lost_found_pool, pool_claims, mempool, txCount>>
  /\ UNCHANGED claimFrame

\* One step of the claimFromPool call r after its start.
ClaimStep(r) ==
  \/ CL_Cooldown(r)
  \/ CL_Rejected(r)
  \/ CL_ReadState(r)
  \/ CL_ReadPool(r)
  \/ \E accepted \in BOOLEAN : CL_Submit(r, accepted)
  \/ CL_Receipt(r)
  \/ CL_UpdatePool(r)
  \/ CL_Upsert(r)
  \/ CL_History(r)

\* The clock moves to a later instant.
Tick(t) ==
  /\ t > now
  /\ now' = t
  /\ UNCHANGED <<creq, treq, clreq, addreq, sreq, rcall>>
  /\ UNCHANGED <<chainVars, listenerVars, dbVars, histVars>>

\* The claim state of a wallet that claimed at instant 0 and holds streak s.
ClaimedBefore(w, s) ==
  toLowerCase(w) :> [last_claim_time |-> <<0>>, streak |-> s, total_claimed |-> s]

\* The service with a pool and, for the wallet, either no claim yet or a claim
\* at instant 0.
ClaimInit ==
  /\ ChainInit
  /\ timeBalances \in [Wallets -> InitialTimeBalances]
  /\ ListenerInit
  /\ startBlockCfg = 1
  /\ TablesInit
  /\ \E b \in InitialPoolBalances :
       lost_found_pool = [EmptyPool EXCEPT !.balance = b, !.total_received = b]
  /\ players = <<>>
  /\ game_sessions = <<>>
  /\ pool_claims \in {<<>>} \cup {ClaimedBefore(w, s) : w \in Wallets, s \in 1..MaxStreak}
  /\ RequestsInit
  /\ HistInit

\* Claim calls of one wallet made one after the other (a call begins when the
\* calls numbered before it have returned), the clock and the chain.
ClaimNext ==
  \/ \E r \in Requests, w \in Wallets :
       (\A q \in Requests : q < r => clreq[q].pc = "done") /\ CL_Begin(r, w)
  \/ \E r \in Requests : ClaimStep(r)
  \/ \E r \in Requests : CL_ReceiptTimeout(r)
  \/ \E t \in TimePoints : Tick(t)
  \/ \E t \in mempool : Mine(t)
  \/ \E t \in mempool : MineReverted(t)

ClaimSpec == ClaimInit /\ [][ClaimNext]_vars

\* ------------------------------------------------ addToPool as a call
\* Quarters the callers of addToPool pass (donations, abandoned games).
AddQuarters == {0, 1, 2, 30, 31, 100}

\* Pool balances the calls start from.
AddBalances == {0, 2470, 2499, 2500}

\* addToPool line 72 with Math.ceil in place of Math.floor.
OverflowToStakingCeil(overflow) == (overflow * OVERFLOW_STAKING_PERCENT + 99) \div 100

\* addToPool line 72: Math.floor(overflow * (OVERFLOW_STAKING_PERCENT / 100)).
\* 75 / 100 is 0.75, which a double holds exactly, so the product is exact and
\* its floor is the integer quotient of 75 * overflow by 100.
OverflowToStaking(overflow) == (overflow * OVERFLOW_STAKING_PERCENT) \div 100

\* What no step of addToPool touches.
addFrame == <<chainVars, listenerVars, histVars, block_sync_state, players, time_purchases,
              yeet_events, staking_events, time_consumptions, tips, game_sessions,
              pool_claims, pool_claim_history, creq, treq, clreq, sreq, rcall, now>>

\* addToPool lines 64-73: the pool is read and the split computed.
AP_Read(r, quarters) ==
  /\ addreq[r].pc \in {"idle", "done"}
  /\ addreq[r].calls < MaxAdds
  /\ LET addedToPool == AddedToPool(quarters, lost_found_pool.balance)
         overflow == quarters - addedToPool
         overflowToStaking == OverflowToStaking(overflow)
     IN addreq' = [addreq EXCEPT ![r] =
          [pc |-> "update", quarters |-> quarters, poolState |-> lost_found_pool,
           addedToPool |-> addedToPool, overflow |-> overflow,
           overflowToStaking |-> overflowToStaking,
           overflowToOperations |-> overflow - overflowToStaking,
           calls |-> addreq[r].calls + 1]]
  /\ UNCHANGED lost_found_pool
  /\ UNCHANGED addFrame

\* addToPool lines 76-94: the pool row is written from the state read (when
\* there is anything to record) and the split returned.
AP_Update(r) ==
  /\ addreq[r].pc = "update"
  /\ lost_found_pool' =
       IF addreq[r].addedToPool > 0 \/ addreq[r].overflow > 0
       THEN [lost_found_pool EXCEPT
               !.balance = addreq[r].poolState.balance + addreq[r].addedToPool,
               !.total_received = addreq[r].poolState.total_received + addreq[r].quarters,
               !.total_overflow = addreq[r].poolState.total_overflow + addreq[r].overflow]
       ELSE lost_found_pool
  /\ addreq' = [addreq EXCEPT ![r].pc = "done"]
  /\ UNCHANGED addFrame

\* The service with a pool that holds b quarters.
PoolInit ==
  /\ ChainInit
  /\ timeBalances \in [Wallets -> InitialTimeBalances]
  /\ ListenerInit
  /\ startBlockCfg = 1
  /\ TablesInit
  /\ \E b \in AddBalances :
       lost_found_pool = [EmptyPool EXCEPT !.balance = b, !.total_received = b]
  /\ players = <<>>
  /\ game_sessions = <<>>
  /\ pool_claims = <<>>
  /\ RequestsInit
  /\ HistInit

\* One caller adding quarters to the pool, call after call.
PoolNext ==
  \/ \E quarters \in AddQuarters : AP_Read(1, quarters)
  \/ AP_Update(1)

PoolSpec == PoolInit /\ [][PoolNext]_vars

\* ------------------------------------------ consumeTime calls on their own
\* Session ids the clients name: the session of the model and one that does
\* not exist.
SessionIds == {1, 2}

\* Seconds the clients ask for: within the balance and above it.
RequestedSeconds == {100, 200}

\* game_sessions.status values a session is found in.
SessionStatuses == {"active", "paused", "completed"}

\* The system with one session in any status, before any request.
ConsumeInit ==
  /\ ChainInit
  /\ timeBalances \in [Wallets -> InitialTimeBalances]
  /\ ListenerInit
  /\ startBlockCfg = 1
  /\ TablesInit
  /\ lost_found_pool = EmptyPool
  /\ \E w \in Wallets, st \in SessionStatuses :
       /\ players = ensurePlayer(<<>>, w)
       /\ game_sessions = <<[wallet_address |-> toLowerCase(w), status |-> st,
                             total_time_consumed |-> 0]>>
  /\ pool_claims = <<>>
  /\ RequestsInit
  /\ HistInit

\* consumeTime calls made one after the other, with the failures the chain
\* client can produce, and the chain mining their transactions.
ConsumeNext ==
  \/ \E r \in Requests, sessionId \in SessionIds, seconds \in RequestedSeconds :
       (\A q \in Requests : q < r => creq[q].pc = "done") /\ CT_GetSession(r, sessionId, seconds)
  \/ \E r \in Requests : ConsumeStep(r)
  \/ \E r \in Requests : CT_SubmitFail(r)
  \/ \E r \in Requests : CT_WaitTimeout(r)
  \/ \E t \in mempool : Mine(t)

ConsumeSpec == ConsumeInit /\ [][ConsumeNext]_vars

\* ------------------------------------------------ tip commands on their own
\* The system before any tip command: the sender has a player row, the
\* recipient has one or not.
TipInit ==
  /\ ChainInit
  /\ timeBalances \in [Wallets -> InitialTimeBalances]
  /\ ListenerInit
  /\ startBlockCfg = 1
  /\ TablesInit
  /\ lost_found_pool = EmptyPool
  /\ \E w \in Wallets :
       players \in {ensurePlayer(<<>>, w), ensurePlayer(ensurePlayer(<<>>, w), TipRecipient)}
  /\ game_sessions = <<>>
  /\ pool_claims = <<>>
  /\ RequestsInit
  /\ HistInit

\* Tip commands executed one after the other, and the chain mining their
\* transactions.
TipNext ==
  \/ \E r \in Requests, fromUser \in NeynarLookups(Wallets),
        toUser \in NeynarLookups({TipRecipient}), amount \in TipAmounts :
       (\A q \in Requests : q < r => treq[q].pc = "done") /\ TP_Begin(r, fromUser, toUser, amount)
  \/ \E r \in Requests : TipStep(r)
  \/ \E t \in mempool : Mine(t)

TipSpec == TipInit /\ [][TipNext]_vars

\* --------------------------------------- pool operations that overlap
\* Pool balances the overlapping calls start from.
RaceBalances == {1, 2499}

\* Quarters the overlapping addToPool calls pass.
RaceQuarters == {1, 30}

\* The service with a pool that received b quarters and no claim made yet.
PoolRaceInit ==
  /\ ChainInit
  /\ timeBalances \in [Wallets -> InitialTimeBalances]
  /\ ListenerInit
  /\ startBlockCfg = 1
  /\ TablesInit
  /\ \E b \in RaceBalances :
       lost_found_pool = [EmptyPool EXCEPT !.balance = b, !.total_received = b]
  /\ players = <<>>
  /\ game_sessions = <<>>
  /\ pool_claims = <<>>
  /\ RequestsInit
  /\ HistInit

\* One caller of addToPool and two claimFromPool calls made at any time, also
\* while other calls are between their read and their write, and the chain.
PoolRaceNext ==
  \/ \E quarters \in RaceQuarters : AP_Read(1, quarters)
  \/ AP_Update(1)
  \/ \E r \in Requests, w \in Wallets : CL_Begin(r, w)
  \/ \E r \in Requests : ClaimStep(r)
  \/ \E t \in mempool : Mine(t)

PoolRaceSpec == PoolRaceInit /\ [][PoolRaceNext]_vars

\* ------------------------------------------------------ retry on its own
\* Values fn throws: Error objects with their message as a sequence of words,
\* and a string thrown as it is (not an Error).
ThrownErrors ==
  { [isError |-> TRUE,  message |-> <<"HTTP", "request", "failed", "Status", "503">>],
    [isError |-> TRUE,  message |-> <<"Request", "Timeout">>],
    [isError |-> TRUE,  message |-> <<"execution", "reverted">>],
    [isError |-> FALSE, message |-> <<"timeout">>] }

\* What one call of fn does: it resolves with a value or rejects with an error.
FnOutcomes ==
  {[ok |-> TRUE, value |-> 7]} \cup {[ok |-> FALSE, error |-> e] : e \in ThrownErrors}

\* String.prototype.toLowerCase on the words of the model's messages.
LowerWord(w) ==
  CASE w = "Timeout" -> "timeout"
    [] w = "HTTP" -> "http"
    [] w = "Request" -> "request"
    [] w = "Status" -> "status"
    [] OTHER -> w

\* isRetryableError: an Error whose lower-cased message includes one of the
\* listed fragments (those that are one word of the model's messages).
isRetryableError(error) ==
  /\ error.isError
  /\ \E i \in DOMAIN error.message :
       LowerWord(error.message[i]) \in
         {"timeout", "503", "502", "connection", "econnreset", "etimedout"}

\* retry with the test of retryIf left out: every error is retried.
GivesUpNever(rc, error) == FALSE

\* retry lines 32-34: retryIf is given and rejects the error.
GivesUp(rc, error) == rc.retryIf /\ ~isRetryableError(error)

\* retry(fn, opts) is called with opts.maxAttempts = n and with or without
\* retryIf: isRetryableError; the locals of lines 23-27 are set.
R_Begin(n, withRetryIf) ==
  /\ rcall.pc = "idle"
  /\ rcall' = [pc |-> "attempt", maxAttempts |-> n, retryIf |-> withRetryIf, attempt |-> 1,
               outcomes |-> <<>>, lastError |-> <<>>, result |-> <<>>]
  /\ UNCHANGED <<creq, treq, clreq, addreq, sreq, now>>
  /\ UNCHANGED <<chainVars, listenerVars, dbVars, histVars>>

\* One iteration of the loop of lines 27-48: fn is called; its value is
\* returned, or its error is kept in lastError and thrown (retryIf rejects
\* it, or this was the last attempt), or the call sleeps and the loop goes on.
R_Attempt(o) ==
  /\ rcall.pc = "attempt"
  /\ rcall.attempt <= rcall.maxAttempts
  /\ rcall' =
       IF o.ok
       THEN [rcall EXCEPT !.pc = "returned", !.result = <<o.value>>,
                          !.outcomes = Append(@, o)]
       ELSE IF GivesUp(rcall, o.error) \/ rcall.attempt = rcall.maxAttempts
       THEN [rcall EXCEPT !.pc = "threw", !.lastError = <<o.error>>,
                          !.result = <<o.error>>, !.outcomes = Append(@, o)]
       ELSE [rcall EXCEPT !.attempt = @ + 1, !.lastError = <<o.error>>,
                          !.outcomes = Append(@, o)]
  /\ UNCHANGED <<creq, treq, clreq, addreq, sreq, now>>
  /\ UNCHANGED <<chainVars, listenerVars, dbVars, histVars>>

\* One retry call with any options the callers pass and any behaviour of fn.
RetryFnNext ==
  \/ \E n \in 1..maxAttempts, withRetryIf \in BOOLEAN : R_Begin(n, withRetryIf)
  \/ \E o \in FnOutcomes : R_Attempt(o)

\* The process before any retry call.
RetryFnInit == Init /\ startBlockCfg = 1

\* fn settles and sleep(delay) ends: an iteration that can run does run.
RetryFnSpec == RetryFnInit /\ [][RetryFnNext]_vars /\ WF_vars(RetryFnNext)

\* ------------------------------------------------------ GameSessionService
\* What no step of the session operations touches.
sessionFrame == <<chainVars, listenerVars, histVars, indexerTables, time_consumptions, tips,
                  creq, treq, clreq, addreq, rcall, now>>

\* getActiveSession(walletAddress): the rows of the wallet in status active;
\* .single() yields a row only when exactly one row matches, null otherwise.
getActiveSession(sessions, w) ==
  LET active == {i \in DOMAIN sessions :
                   sessions[i].wallet_address = toLowerCase(w) /\ sessions[i].status = "active"}
  IN IF Cardinality(active) = 1 THEN <<CHOOSE i \in active : TRUE>> ELSE <<>>

\* startSession lines 13-17: the active session of the wallet is looked up and
\* the call throws when there is one.
SS_Check(r, w) ==
  /\ sreq[r].pc \in {"idle", "done"}
  /\ Len(game_sessions) < MaxSessions
  /\ sreq' = [sreq EXCEPT ![r] =
       IF getActiveSession(game_sessions, w) # <<>>
       THEN [pc |-> "done", wallet |-> w, err |-> "Active session already exists", id |-> 0]
       ELSE [pc |-> "insert", wallet |-> w, err |-> "", id |-> 0]]
  /\ UNCHANGED <<game_sessions, players>>
  /\ UNCHANGED sessionFrame

\* startSession lines 20-47: the time balance is read from the chain (the
\* call throws when it is not positive), the player row is upserted and the
\* session row inserted in status active.
SS_Insert(r) ==
  /\ sreq[r].pc = "insert"
  /\ IF timeBalances[sreq[r].wallet] <= 0
     THEN /\ sreq' = [sreq EXCEPT ![r].pc = "done", ![r].err = "Insufficient time balance"]
          /\ UNCHANGED <<game_sessions, players>>
     ELSE /\ players' = ensurePlayer(players, sreq[r].wallet)
          /\ game_sessions' = Append(game_sessions,
               [wallet_address |-> toLowerCase(sreq[r].wallet), status |-> "active",
                total_time_consumed |-> 0])
          /\ sreq' = [sreq EXCEPT ![r].pc = "done", ![r].id = Len(game_sessions) + 1]
  /\ UNCHANGED sessionFrame

\* pauseSession: update status = paused where id = sessionId and status =
\* active (with no such row .single() fails and the call throws).
pauseSession(sessionId) ==
  /\ sessionId \in DOMAIN game_sessions
  /\ game_sessions[sessionId].status = "active"
  /\ game_sessions' = [game_sessions EXCEPT ![sessionId].status = "paused"]
  /\ UNCHANGED <<players, sreq>>
  /\ UNCHANGED sessionFrame

\* resumeSession: update status = active where id = sessionId and status =
\* paused.
resumeSession(sessionId) ==
  /\ sessionId \in DOMAIN game_sessions
  /\ game_sessions[sessionId].status = "paused"
  /\ game_sessions' = [game_sessions EXCEPT ![sessionId].status = "active"]
  /\ UNCHANGED <<players, sreq>>
  /\ UNCHANGED sessionFrame

\* endSession: the session is read, must be active, and is updated to
\* completed.
endSession(sessionId) ==
  /\ sessionId \in DOMAIN game_sessions
  /\ game_sessions[sessionId].status = "active"
  /\ game_sessions' = [game_sessions EXCEPT ![sessionId].status = "completed"]
  /\ UNCHANGED <<players, sreq>>
  /\ UNCHANGED sessionFrame

\* The service before any session was started.
SessionInit == Init /\ startBlockCfg = 1

\* startSession calls that may overlap, and pause, resume and end calls on the
\* sessions that exist.
SessionNext ==
  \/ \E r \in Requests, w \in Wallets : SS_Check(r, w)
  \/ \E r \in Requests : SS_Insert(r)
  \/ \E id \in DOMAIN game_sessions : pauseSession(id)
  \/ \E id \in DOMAIN game_sessions : resumeSession(id)
  \/ \E id \in DOMAIN game_sessions : endSession(id)

SessionSpec == SessionInit /\ [][SessionNext]_vars

\* ------------------------------------------- submissions with their retries
\* The system with one open session, before any request.
RetryInit == SettleInit /\ startBlockCfg = 1

\* One consumeTime call and then one tip command, with the failures the RPC
\* endpoint can produce at submission, and the chain mining what it received.
RetryNext ==
  \/ \E seconds \in ConsumeAmounts : CT_GetSession(1, 1, seconds)
  \/ ConsumeStep(1)
  \/ CT_SubmitFail(1)
  \/ CT_SubmitRetry(1)
  \/ CT_SubmitLost(1)
  \/ CT_WaitTimeout(1)
  \/ \E fromUser \in NeynarLookups(Wallets), toUser \in NeynarLookups({TipRecipient}),
        amount \in TipAmounts :
       creq[1].pc = "done" /\ TP_Begin(1, fromUser, toUser, amount)
  \/ TipStep(1)
  \/ TP_SubmitLost(1)
  \/ \E t \in mempool : Mine(t)

RetrySpec == RetryInit /\ [][RetryNext]_vars

\* ------------------------------------- the polling loop and its failures
\* The polling loop with failing getLogs calls, throwing handlers and a
\* shutdown signal, and the chain.
PollNext ==
  \/ IndexerStep
  \/ FetchFail
  \/ DispatchThrow
  \/ Stop
  \/ LoopExit
  \/ Exit
  \/ NewBlocks
  \/ \E ev \in UserEvents, w \in Wallets : UserEvent(ev, w)

PollSpec == Init /\ [][PollNext]_vars

\* The polling loop under stop() and start() calls, and the chain.
StartStopInit == Init /\ startBlockCfg = 1

StartStopNext ==
  \/ IndexerStep
  \/ Stop
  \/ Start
  \/ Switch
  \/ LoopExit
  \/ \E w \in Wallets : UserEvent("YeetSent", w)

StartStopSpec == StartStopInit /\ [][StartStopNext]_vars

\* --------------------------------------------------- calls that overlap
\* Two tip commands executed at the same time, and the chain.
TipRaceNext ==
  \/ \E r \in Requests, fromUser \in NeynarLookups(Wallets),
        toUser \in NeynarLookups({TipRecipient}), amount \in TipAmounts :
       TP_Begin(r, fromUser, toUser, amount)
  \/ \E r \in Requests : TipStep(r)
  \/ \E t \in mempool : Mine(t)

TipRaceSpec == TipInit /\ [][TipRaceNext]_vars

\* Seconds asked by consumeTime calls that can both be paid from one balance.
OverlapSeconds == {50, 100}

\* Two consumeTime calls for the same session at the same time, and the chain.
SessionRaceNext ==
  \/ \E r \in Requests, seconds \in OverlapSeconds : CT_GetSession(r, 1, seconds)
  \/ \E r \in Requests : ConsumeStep(r)
  \/ \E t \in mempool : Mine(t)

SessionRaceSpec == RetryInit /\ [][SessionRaceNext]_vars

\* ------------------------------------------------- handlers on their own
\* The delivery the handlers are written for (at least once, in any order,
\* possibly repeated): every handler may be called with any log of its event.
\* Under Spec the TimeConsumed and Unstaked handlers are never called.

\* A transaction of the game server is mined in the next block and emits ev;
\* ArcadeVault.consumeTime needs the balance it takes.
ServerEvent(ev, w) ==
  /\ head < MaxHead
  /\ txCount < MaxTx
  /\ ev = "TimeConsumed" => timeBalances[w] >= EventAmount(ev)
  /\ head' = head + 1
  /\ txCount' = txCount + 1
  /\ chainLogs' = chainLogs \cup
       {[tx |-> txCount + 1, ev |-> ev, blk |-> head + 1,
         player |-> w, to |-> TipRecipient, amt |-> EventAmount(ev)]}
  /\ timeBalances' = IF ev = "TimeConsumed"
                     THEN [timeBalances EXCEPT ![w] = @ - EventAmount(ev)]
                     ELSE timeBalances
  /\ UNCHANGED <<mempool, receipts>>
  /\ UNCHANGED <<listenerVars, dbVars, reqVars, histVars>>

\* The handler of the log's event is called with a log for the first time.
Deliver(l) ==
  /\ <<l.ev, l.tx>> \notin handled
  /\ Handle(l.ev, l)
  /\ handled' = handled \cup {<<l.ev, l.tx>>}
  /\ UNCHANGED <<chainVars, listenerVars, otherTables, reqVars, firstFrom, cpAtRestart,
                 firstFetch, threw, lastFail>>

\* A log is delivered again (a crash before the checkpoint write).
Redeliver(l) ==
  /\ <<l.ev, l.tx>> \in handled
  /\ faults < MaxFaults
  /\ faults' = faults + 1
  /\ Handle(l.ev, l)
  /\ UNCHANGED <<startBlockCfg, isRunning, otherLoop, initializedStartBlock, pc, currentBlock, hIdx, start, batch>>
  /\ UNCHANGED <<chainVars, otherTables, reqVars, histVars>>

HandlerNext ==
  \/ \E ev \in UserEvents, w \in Wallets : UserEvent(ev, w)
  \/ \E ev \in ServerEvents, w \in Wallets : ServerEvent(ev, w)
  \/ \E l \in chainLogs : Deliver(l)
  \/ \E l \in chainLogs : Redeliver(l)

HandlerSpec == Init /\ [][HandlerNext]_vars

\* ================================================================== claims

\* The step in which pollEvents passes the first log of batch to its handler.
DispatchStep ==
  /\ pc = "dispatch"
  /\ batch # <<>>
  /\ batch' = Tail(batch)
  /\ faults' = faults
  /\ head' = head

\* C1: delivering a log (same transaction id) to its handler a second time
\* leaves every player counter and the pool balance as they were after the
\* first delivery.
C1_ReplayLeavesCounters ==
  [][(DispatchStep /\ <<handlers[hIdx].eventName, Head(batch).tx>> \in handled)
       => (players' = players /\ lost_found_pool'.balance = lost_found_pool.balance)]_vars

\* C4: between the ticks of a run without faults, for every registered
\* (contract, event) pair whose contract has a checkpoint >= b, every log of
\* that event emitted in a block between the pair's start block and b has
\* been passed to the pair's handler.
C4_NoGapBelowCheckpoint ==
  (pc = "sleep" /\ faults = 0) =>
    \A i \in 1..Len(handlers) : \A l \in chainLogs :
      LET c == handlers[i].contractName
      IN (/\ c \in DOMAIN block_sync_state
          /\ firstFrom[c] # <<>>
          /\ l.ev = handlers[i].eventName
          /\ l.blk >= firstFrom[c][1]
          /\ l.blk <= block_sync_state[c])
         => <<l.ev, l.tx>> \in handled

C6_ResumeAfterCheckpoint ==
  \A c \in Contracts :
    (cpAtRestart[c] # <<>> /\ firstFetch[c] # <<>>) => firstFetch[c][1] = cpAtRestart[c][1] + 1

\* C6 witness: a restart with a checkpoint, START_BLOCK = 0 resolved to a block
\* beyond the checkpoint, and a first fetch for that contract after it.
C6_Witness ==
  \E c \in Contracts :
    /\ cpAtRestart[c] # <<>> /\ firstFetch[c] # <<>>
    /\ startBlockCfg = 0
    /\ initializedStartBlock # <<>>
    /\ initializedStartBlock[1] > cpAtRestart[c][1] + 1

\* C8: every player's cached_time_balance and cached_staked_balance are >= 0,
\* whatever events the handlers receive and in whatever order.
C8_CachedBalancesNonNegative ==
  \A w \in DOMAIN players :
    players[w].cached_time_balance >= 0 /\ players[w].cached_staked_balance >= 0

\* C8 witness: an Unstaked event of 8 was handled after a Staked event of 5
\* and left the staked balance at 0.
C8_Witness ==
  \E w \in DOMAIN players : \E t1, t2 \in 1..MaxTx :
    /\ {<<"Staked", t1>>, <<"Unstaked", t2>>} \subseteq handled
    /\ players[w].cached_staked_balance = 0

\* A ledger status that is terminal.
Terminal(status) == status \in {"confirmed", "failed"}

\* C2: a time_consumptions or tips row whose status is confirmed or failed
\* keeps that status in every later step, whatever request step or handler
\* takes it.
C2_TerminalStatusIsFinal ==
  [][/\ \A id \in DOMAIN time_consumptions :
          Terminal(time_consumptions[id].status)
            => time_consumptions'[id].status = time_consumptions[id].status
     /\ \A id \in DOMAIN tips :
          Terminal(tips[id].status) => tips'[id].status = tips[id].status]_vars

\* C3: every ledger row that reaches submitted eventually reaches confirmed
\* or failed.
C3_SubmittedReachesTerminal ==
  /\ (1 \in DOMAIN time_consumptions /\ time_consumptions[1].status = "submitted")
       ~> (1 \in DOMAIN time_consumptions /\ Terminal(time_consumptions[1].status))
  /\ (1 \in DOMAIN tips /\ tips[1].status = "submitted")
       ~> (1 \in DOMAIN tips /\ Terminal(tips[1].status))

\* C7: when two concurrent consumeTime calls of 100 seconds on a balance of
\* 150 have both returned, at most one row is confirmed, every call that did
\* not confirm failed with an error the route reports as insufficient
\* balance, and the on-chain balance is not negative.
C7_OneConfirmsOtherInsufficient ==
  (\A r \in Requests : creq[r].pc = "done") =>
    /\ Cardinality({id \in DOMAIN time_consumptions :
                      time_consumptions[id].status = "confirmed"}) <= 1
    /\ \A r \in Requests : creq[r].err # "" => IsInsufficientMessage(creq[r].err)
    /\ \E r \in Requests : creq[r].err # ""
    /\ \A w \in Wallets : timeBalances[w] >= 0

\* h hours in milliseconds.
Hours(h) == h * 3600 * 1000

\* The streak the rule gives a wallet with stored streak s whose claim begins
\* at instant t: <<>> stands for "no last claim"; the result is <<>> where the
\* rule says nothing (a gap below 24 hours).
RuleStreak(last, s, t) ==
  IF last = <<>> THEN <<1>>
  ELSE IF t - last[1] >= Hours(24) /\ t - last[1] <= Hours(48) THEN <<s + 1>>
  ELSE IF t - last[1] > Hours(48) THEN <<1>>
  ELSE <<>>

\* C9: when a claim is recorded, the streak stored for the wallet is 1 without
\* a prior claim, s + 1 for a gap of 24 to 48 hours (both inclusive) and 1 for
\* a gap above 48 hours, where s and the last claim time are the stored
\* values the call read and the gap is taken at the call's Date.now().
C9_StreakRule ==
  [][\A r \in Requests :
       (clreq[r].pc = "upsert" /\ clreq'[r].pc = "history") =>
         LET st == clreq[r].claimState
             rule == RuleStreak(IF st = <<>> THEN <<>> ELSE st[1].last_claim_time,
                                IF st = <<>> THEN 0 ELSE st[1].streak,
                                clreq[r].now)
         IN rule # <<>> => pool_claims'[toLowerCase(clreq[r].wallet)].streak = rule[1]]_vars

\* C9 witness: a claim that began exactly 48 hours after the last one has been
\* recorded with the stored streak raised by one.
C9_Witness ==
  \E r \in Requests :
    /\ clreq[r].pc \in {"history", "done"} /\ clreq[r].txHash # 0
    /\ clreq[r].claimState # <<>>
    /\ clreq[r].now - clreq[r].claimState[1].last_claim_time[1] = Hours(48)
    /\ pool_claims[toLowerCase(clreq[r].wallet)].streak = clreq[r].claimState[1].streak + 1

\* C10: canClaim answers allowed exactly when it read no last claim time or
\* its Date.now() is at least 24 hours after it; and a call that begins after
\* a claim was recorded at t and checks before t + 24h is rejected.
C10_CooldownRule ==
  \A r \in Requests :
    clreq[r].pc \notin {"idle", "cooldown"} =>
      /\ clreq[r].allowed <=>
           \/ clreq[r].cooldownState = <<>>
           \/ clreq[r].cooldownState[1].last_claim_time = <<>>
           \/ clreq[r].checkedAt - clreq[r].cooldownState[1].last_claim_time[1] >= Hours(24)
      /\ (clreq[r].lastAtStart # <<>> /\ clreq[r].checkedAt < clreq[r].lastAtStart[1] + Hours(24))
           => ~clreq[r].allowed

\* C10 witness: one call recorded a claim, a later call of the same wallet
\* checked one millisecond before the 24 hours were over and was rejected, and
\* another checked exactly 24 hours after its last claim and was allowed.
C10_Witness ==
  \E r1, r2 \in Requests :
    /\ clreq[r1].pc = "done" /\ clreq[r1].txHash # 0
    /\ clreq[r2].pc = "done" /\ ~clreq[r2].allowed
    /\ clreq[r2].lastAtStart = pool_claims[toLowerCase(clreq[r1].wallet)].last_claim_time
    /\ clreq[r2].checkedAt = clreq[r2].lastAtStart[1] + Hours(24) - 1
    /\ clreq[r1].allowed /\ clreq[r1].cooldownState # <<>>
    /\ clreq[r1].checkedAt = clreq[r1].cooldownState[1].last_claim_time[1] + Hours(24)

\* C11: a claimFromPool call that the cooldown rejected changes, in none of
\* its steps, the pool record, the claim states, the claim history or the
\* transactions sent, and it returns claimed = 0 with cooldownActive set.
C11_RejectedClaimChangesNothing ==
  [][\A r \in Requests :
       (/\ clreq'[r] # clreq[r]
        /\ clreq'[r].pc \notin {"idle", "cooldown"}
        /\ ~clreq'[r].allowed)
       => /\ UNCHANGED <<lost_found_pool, pool_claims, pool_claim_history, mempool, txCount>>
          /\ clreq'[r].pc = "done" =>
               (clreq'[r].claimed = 0 /\ clreq'[r].cooldownActive /\ clreq'[r].txHash = 0)]_vars

\* C11 witness: a rejected call has returned while the pool had quarters to
\* give and the wallet had a claim state.
C11_Witness ==
  \E r \in Requests :
    /\ clreq[r].pc = "done" /\ ~clreq[r].allowed /\ clreq[r].cooldownActive
    /\ lost_found_pool.balance > 0
    /\ getClaimState(clreq[r].wallet) # <<>>

\* C12: the nextClaimTime of a rejected claim is the first UTC midnight
\* strictly after lastClaimTime + 24h, and so not before the cooldown ends.
C12_NextClaimTimeAfterCooldown ==
  \A r \in Requests :
    (clreq[r].pc = "done" /\ clreq[r].cooldownActive) =>
      LET cooldownEnd == clreq[r].cooldownState[1].last_claim_time[1] + Hours(24)
      IN /\ clreq[r].nextClaimTime[1] = ((cooldownEnd \div Hours(24)) + 1) * Hours(24)
         /\ clreq[r].nextClaimTime[1] >= cooldownEnd

\* A claim call that passed the cooldown and has read the pool.
PastPoolRead(req) ==
  req.allowed /\ req.pc \in {"chain", "receipt", "updatePool", "upsert", "history", "done"}

\* C13: for every claim past the cooldown the amount claimed is
\* min(maxClaimable, pool balance read), with maxClaimable 4 for a new streak
\* >= 4, 2 for 2 or 3, 1 otherwise; it is at most 4 and at most the pool
\* balance read.
C13_ClaimedAmount ==
  \A r \in Requests :
    PastPoolRead(clreq[r]) =>
      LET maxClaimable == IF clreq[r].newStreak >= 4 THEN 4
                          ELSE IF clreq[r].newStreak \in {2, 3} THEN 2
                          ELSE 1
          balance == clreq[r].poolState.balance
      IN /\ clreq[r].claimed = IF maxClaimable <= balance THEN maxClaimable ELSE balance
         /\ clreq[r].claimed <= 4
         /\ clreq[r].claimed <= balance

\* C13 witness: one paid claim took the full 4 quarters on a streak of 4 or
\* more, and another was cut down to the quarters left in the pool.
C13_Witness ==
  \E r1, r2 \in Requests :
    /\ clreq[r1].pc = "done" /\ clreq[r1].txHash # 0
    /\ clreq[r1].newStreak >= 4 /\ clreq[r1].claimed = 4
    /\ clreq[r2].pc = "done" /\ clreq[r2].txHash # 0
    /\ clreq[r2].claimed = clreq[r2].poolState.balance
    /\ clreq[r2].claimed < getMaxClaimable(clreq[r2].newStreak)

\* C14: for every addToPool(quarters) on a pool balance b, addedToPool is
\* min(quarters, max(0, 2500 - b)), overflow the rest, overflowToStaking the
\* floor of three quarters of the overflow, overflowToOperations what is left,
\* the three parts add up to quarters, and b = 2470 with quarters = 100 gives
\* 30, 52 and 18.
C14_AddToPoolSplit ==
  \A r \in Requests :
    addreq[r].pc \in {"update", "done"} =>
      LET q == addreq[r].quarters
          b == addreq[r].poolState.balance
          space == IF 2500 - b > 0 THEN 2500 - b ELSE 0
          added == addreq[r].addedToPool
          staking == addreq[r].overflowToStaking
          operations == addreq[r].overflowToOperations
      IN /\ added = (IF q <= space THEN q ELSE space)
         /\ addreq[r].overflow = q - added
         /\ 4 * staking <= 3 * (q - added) /\ 3 * (q - added) < 4 * (staking + 1)
         /\ operations = (q - added) - staking
         /\ added + staking + operations = q
         /\ (b = 2470 /\ q = 100) => (added = 30 /\ staking = 52 /\ operations = 18)

\* C14 witness: addToPool(100) on a balance of 2470 has returned 30, 52, 18
\* and the pool is full.
C14_Witness ==
  \E r \in Requests :
    /\ addreq[r].pc = "done" /\ addreq[r].quarters = 100
    /\ addreq[r].poolState.balance = 2470
    /\ addreq[r].addedToPool = 30 /\ addreq[r].overflowToStaking = 52
    /\ addreq[r].overflowToOperations = 18
    /\ lost_found_pool.balance = 2500

\* The call r ends in this step with an error, having inserted no row and
\* sent no transaction.
FailsClean(r) ==
  /\ creq'[r].pc = "done" /\ creq'[r].err # ""
  /\ creq'[r].row = 0 /\ creq'[r].txHash = 0
  /\ UNCHANGED <<time_consumptions, mempool, txCount>>

\* C15: a consumeTime call whose session does not exist or is not active, or
\* whose on-chain balance is below the seconds asked, fails without inserting
\* a time_consumptions row and without submitting a transaction.
C15_RejectedConsumeWritesNothing ==
  [][\A r \in Requests :
       /\ (/\ creq[r].pc = "idle" /\ creq'[r].pc # "idle"
           /\ \/ creq'[r].session \notin DOMAIN game_sessions
              \/ game_sessions[creq'[r].session].status # "active")
          => FailsClean(r)
       /\ (/\ creq[r].pc = "balance" /\ creq'[r].pc # "balance"
           /\ timeBalances[ChainAddress(game_sessions[creq[r].session].wallet_address)]
                < creq[r].seconds)
          => FailsClean(r)]_vars

\* C15 witness: one call named a session that does not exist, another asked
\* for more seconds than the balance, and the ledger is empty.
C15_Witness ==
  \E r1, r2 \in Requests :
    /\ creq[r1].pc = "done" /\ creq[r1].err = "Session not found"
    /\ creq[r2].pc = "done" /\ creq[r2].err = "Insufficient time balance"
    /\ creq[r2].seconds > timeBalances[ChainAddress(game_sessions[creq[r2].session].wallet_address)]
    /\ time_consumptions = <<>> /\ txCount = 0

\* C16: when the submission or the receipt wait of consumeTime fails (error
\* thrown, timeout, or receipt not success), the call ends with that error, the
\* row is failed with the error text, and the call has added nothing to the
\* session's total_time_consumed.
C16_FailedConsumeMarksRow ==
  [][\A r \in Requests :
       /\ (creq[r].pc \in {"submit", "wait"} /\ creq'[r].pc = "done")
          => /\ creq'[r].err # ""
             /\ time_consumptions'[creq[r].row].status = "failed"
             /\ time_consumptions'[creq[r].row].error_message = creq'[r].err
             /\ game_sessions' = game_sessions
             /\ creq'[r].added = 0
       /\ (/\ creq[r].pc = "wait" /\ creq'[r] # creq[r]
           /\ creq[r].txHash \in DOMAIN receipts
           /\ receipts[creq[r].txHash] # "success")
          => creq'[r].pc = "done"]_vars

\* C16 witness: one call failed on a timeout and another on a reverted
\* receipt; both rows are failed and the session's total is 0.
C16_Witness ==
  \E r1, r2 \in Requests :
    /\ creq[r1].pc = "done" /\ creq[r1].err = "Timed out while waiting for transaction"
    /\ creq[r2].pc = "done" /\ creq[r2].err = "Transaction failed"
    /\ time_consumptions[creq[r1].row].status = "failed"
    /\ time_consumptions[creq[r2].row].status = "failed"
    /\ game_sessions[creq[r2].session].total_time_consumed = 0

\* C17: a row is inserted pending with no tx_hash, goes to submitted and then
\* to confirmed (or to failed), has a tx_hash exactly from submitted onwards,
\* and a call that succeeds leaves its row confirmed and has increased the
\* session's total_time_consumed by its seconds in one step.
C17_SuccessfulConsumeOrder ==
  [][/\ \A id \in DOMAIN time_consumptions' :
          /\ id \notin DOMAIN time_consumptions =>
               (time_consumptions'[id].status = "pending" /\ time_consumptions'[id].tx_hash = 0)
          /\ id \in DOMAIN time_consumptions =>
               /\ time_consumptions'[id].status # time_consumptions[id].status =>
                    <<time_consumptions[id].status, time_consumptions'[id].status>> \in
                       {<<"pending", "submitted">>, <<"submitted", "confirmed">>,
                        <<"pending", "failed">>, <<"submitted", "failed">>}
               /\ time_consumptions[id].tx_hash # 0 =>
                    time_consumptions'[id].tx_hash = time_consumptions[id].tx_hash
          /\ time_consumptions'[id].status = "pending" => time_consumptions'[id].tx_hash = 0
          /\ time_consumptions'[id].status \in {"submitted", "confirmed"} =>
               time_consumptions'[id].tx_hash # 0
     /\ \A r \in Requests :
          /\ (creq[r].pc # "done" /\ creq'[r].pc = "done" /\ creq'[r].err = "") =>
               /\ time_consumptions'[creq[r].row].status = "confirmed"
               /\ creq'[r].added = creq[r].seconds
          /\ game_sessions' # game_sessions =>
               (\E q \in Requests :
                  /\ creq[q].pc = "writeSession" /\ creq'[q].pc = "confirm"
                  /\ game_sessions'[creq[q].session].total_time_consumed =
                       game_sessions[creq[q].session].total_time_consumed + creq[q].seconds)]_vars

\* C17 witness: a call has succeeded: its row is confirmed with a tx_hash and
\* the session's total is the seconds of the call.
C17_Witness ==
  \E r \in Requests :
    /\ creq[r].pc = "done" /\ creq[r].err = "" /\ creq[r].row # 0
    /\ time_consumptions[creq[r].row].status = "confirmed"
    /\ time_consumptions[creq[r].row].tx_hash = creq[r].txHash /\ creq[r].txHash # 0
    /\ game_sessions[creq[r].session].total_time_consumed = creq[r].seconds

\* C18: an executeTip call whose sender or recipient cannot be resolved or has
\* no verified address ends at once, creates no tips row and submits no
\* transaction.
C18_UnverifiedTipFailsClosed ==
  [][\A r \in Requests, fromUser \in NeynarLookups(Wallets),
        toUser \in NeynarLookups({TipRecipient}), amount \in TipAmounts :
       (/\ TP_Begin(r, fromUser, toUser, amount)
        /\ \/ ~fromUser.found \/ Len(fromUser.verifiedAddresses) = 0
           \/ ~toUser.found \/ Len(toUser.verifiedAddresses) = 0)
       => /\ treq'[r].pc = "done" /\ treq'[r].row = 0 /\ treq'[r].txHash = 0
          /\ UNCHANGED <<tips, mempool, txCount, players>>]_vars

\* C18 witness: one call ended on an unverified sender and another on an
\* unverified recipient, with no tips row and no transaction.
C18_Witness ==
  \E r1, r2 \in Requests :
    /\ treq[r1].pc = "done" /\ treq[r1].warn = "Sender has no verified address"
    /\ treq[r2].pc = "done" /\ treq[r2].warn = "Recipient has no verified address"
    /\ tips = <<>> /\ txCount = 0

\* The sum of amount_wei over the confirmed tips rows whose column col holds
\* the wallet w.
RECURSIVE ConfirmedTipSum(_, _, _)
ConfirmedTipSum(rows, col, w) ==
  IF rows = <<>> THEN 0
  ELSE (IF rows[1].status = "confirmed" /\ rows[1][col] = w THEN rows[1].amount_wei ELSE 0)
       + ConfirmedTipSum(Tail(rows), col, w)

\* C19: once no tip command is running, every player's total_tips_sent is the
\* sum of the confirmed tips rows the player sent and total_tips_received the
\* sum of those the player received: each confirmed row was counted exactly
\* once, whether executeTip or the TipExecuted handler confirmed it, and no
\* other row was counted.
C19_ConfirmedTipsCounted ==
  (\A r \in Requests : NotRunning(treq[r])) =>
    \A w \in DOMAIN players :
      /\ players[w].total_tips_sent = ConfirmedTipSum(tips, "from_wallet", w)
      /\ players[w].total_tips_received = ConfirmedTipSum(tips, "to_wallet", w)

\* C20: when a claimFromPool call returns a payout c > 0 (calls made one after
\* the other), the pool balance is c below and total_claimed c above their
\* values at the start of the call, exactly one history row was appended, with
\* quarters_claimed = c, and the wallet's claim state holds the new streak, a
\* last claim time within the call, and a lifetime total grown by c.
C20_SuccessfulClaimBookkeeping ==
  [][\A r \in Requests :
       (/\ clreq[r].pc # "done" /\ clreq'[r].pc = "done"
        /\ clreq'[r].err = "" /\ ~clreq'[r].cooldownActive /\ clreq'[r].claimed > 0)
       => LET c == clreq'[r].claimed
              w == toLowerCase(clreq'[r].wallet)
              before == clreq'[r].cooldownState
          IN /\ lost_found_pool'.balance = clreq'[r].poolAtStart.balance - c
             /\ lost_found_pool'.total_claimed = clreq'[r].poolAtStart.total_claimed + c
             /\ lost_found_pool'.total_received = clreq'[r].poolAtStart.total_received
             /\ Len(pool_claim_history') = clreq'[r].historyAtStart + 1
             /\ pool_claim_history'[Len(pool_claim_history')].quarters_claimed = c
             /\ pool_claim_history'[Len(pool_claim_history')].wallet_address = w
             /\ w \in DOMAIN pool_claims'
             /\ pool_claims'[w].streak = clreq'[r].streak
             /\ pool_claims'[w].last_claim_time # <<>>
             /\ pool_claims'[w].last_claim_time[1] >= clreq'[r].now
             /\ pool_claims'[w].last_claim_time[1] <= now'
             /\ pool_claims'[w].total_claimed =
                  (IF before = <<>> THEN 0 ELSE before[1].total_claimed) + c]_vars

\* C20 witness: the second call of a wallet has returned a payout after the
\* first one did; two history rows exist.
C20_Witness ==
  /\ \A r \in Requests : clreq[r].pc = "done" /\ clreq[r].err = "" /\ clreq[r].claimed > 0
  /\ Len(pool_claim_history) = 2
  /\ lost_found_pool.total_claimed = clreq[1].claimed + clreq[2].claimed

\* The payout transaction of the call r has a receipt with status success.
PayoutConfirmed(req, rcpts) ==
  req.txHash \in DOMAIN rcpts /\ rcpts[req.txHash] = "success"

\* C21: a claimFromPool call (calls made one after the other) that returns or
\* throws without a payout transaction confirmed as successful leaves the pool
\* row, the wallet's claim state and the claim history as they were when the
\* call began.
C21_UnconfirmedClaimChangesNothing ==
  [][\A r \in Requests :
       (/\ clreq[r].pc # "done" /\ clreq'[r].pc = "done"
        /\ ~PayoutConfirmed(clreq'[r], receipts'))
       => /\ lost_found_pool' = clreq'[r].poolAtStart
          /\ Len(pool_claim_history') = clreq'[r].historyAtStart
          /\ (IF toLowerCase(clreq'[r].wallet) \in DOMAIN pool_claims'
              THEN <<pool_claims'[toLowerCase(clreq'[r].wallet)]>> ELSE <<>>)
               = clreq'[r].cooldownState]_vars

\* C22: no consumeTime call and no executeTip call sends more than one
\* transaction to the chain.
C22_AtMostOneSubmission ==
  \A r \in Requests : creq[r].sent <= 1 /\ treq[r].sent <= 1

\* The last block of the sub-range that begins at s in a tick that read the
\* head h.
RangeEnd(s, h) == IF s + batchSize - 1 > h THEN h ELSE s + batchSize - 1

\* The step that ends a sub-range: the inner loop is over and the checkpoint
\* is written.
CheckpointStep == pc = "dispatch" /\ pc' \in {"fetch", "pair", "sleep"}

\* A step the polling loop takes from position p (not the shutdown signal or
\* the end of the process).
LoopStepAt(p) ==
  /\ pc = p /\ pc' # "exited"
  /\ <<pc, hIdx, start, batch>>' # <<pc, hIdx, start, batch>>

\* The fromBlock of the pair h as pollEvents computes it from the checkpoint
\* row of the pair's contract.
PairFromBlock(h) ==
  IF handlers[h].contractName \in DOMAIN block_sync_state
  THEN block_sync_state[handlers[h].contractName] + 1
  ELSE initializedStartBlock[1]

C25_FailedFetchAbortsOnlyItsPair ==
  [][(/\ pc = "fetch" /\ lastFail' # lastFail
      /\ \E j \in DOMAIN handlers : j > hIdx /\ PairFromBlock(j) <= currentBlock)
     => pc' = "pair" /\ hIdx' = hIdx + 1]_vars

C30_StopWaitsForTick ==
  [][/\ (~isRunning /\ pc = "sleep") => pc' # "resolve"
     /\ (pc # "exited" /\ pc' = "exited") => pc \in {"sleep", "stopped"}]_vars

\* What C26 asks of a ledger across a handler call for the transaction T:
\* the rows with tx_hash = T that were pending or submitted are confirmed, all
\* other rows are as they were.
SettledOnly(rows, rowsAfter, T) ==
  /\ DOMAIN rowsAfter = DOMAIN rows
  /\ \A id \in DOMAIN rows :
       IF rows[id].tx_hash = T /\ rows[id].status \in {"pending", "submitted"}
       THEN rowsAfter[id] = [rows[id] EXCEPT !.status = "confirmed"]
       ELSE rowsAfter[id] = rows[id]

\* C26: when the TimeConsumed (TipExecuted) handler processes a log of
\* transaction T, the time_consumptions (tips) rows with tx_hash = T that
\* were pending or submitted become confirmed, and every other row, among
\* them the rows already confirmed or failed, is unchanged.
C26_HandlerSettlesOnlyOpenRows ==
  [][/\ (DispatchStep /\ handlers[hIdx].eventName = "TimeConsumed") =>
          SettledOnly(time_consumptions, time_consumptions', Head(batch).tx)
     /\ (DispatchStep /\ handlers[hIdx].eventName = "TipExecuted") =>
          SettledOnly(tips, tips', Head(batch).tx)]_vars

\* C27: when two tip commands of one sender have both been confirmed by
\* executeTip, the sender's total_tips_sent is the sum of both amounts and
\* the recipient's total_tips_received too (when the recipient has a player
\* row): no delta is lost when the two updates overlap.
C27_NoCounterDeltaLost ==
  (\A r \in Requests : treq[r].pc = "done" /\ treq[r].row # 0 /\ treq[r].err = "") =>
    /\ players["0xab"].total_tips_sent = treq[1].amount + treq[2].amount
    /\ "0xcd" \in DOMAIN players =>
         players["0xcd"].total_tips_received = treq[1].amount + treq[2].amount

\* C28: when two consumeTime calls for the same session have both succeeded,
\* the session's total_time_consumed is the sum of both amounts.
C28_SessionTotalIsSum ==
  (\A r \in Requests : creq[r].pc = "done" /\ creq[r].row # 0 /\ creq[r].err = "") =>
    game_sessions[1].total_time_consumed = creq[1].seconds + creq[2].seconds

\* ---------------------------------------------------------------- C31
\* A position inside a fetch/dispatch/checkpoint cycle of a pair.
InCycle(p) == p \in {"fetch", "dispatch"}

\* C31: whatever start() and stop() calls are made, no two polling loops are
\* inside a fetch/dispatch/checkpoint cycle of the same pair at the same time.
C31_OneLoopPerPair ==
  otherLoop # <<>> =>
    ~(InCycle(pc) /\ InCycle(otherLoop[1].pc) /\ hIdx = otherLoop[1].hIdx)

\* ---------------------------------------------------------------- C32
\* C32: within one process the effective start block is set once, by the first
\* tick, to the chain head read then when the configured start block is 0 and
\* to the configured start block otherwise; it never changes afterwards, and
\* every pair whose contract has no checkpoint takes it as its fromBlock, in
\* that tick and in every later one.
C32_StartBlockResolvedOnce ==
  [][/\ (initializedStartBlock # <<>> /\ faults' = faults) =>
          initializedStartBlock' = initializedStartBlock
     /\ (initializedStartBlock = <<>> /\ initializedStartBlock' # <<>>) =>
          /\ pc = "resolve"
          /\ initializedStartBlock' =
               IF startBlockCfg = 0 THEN <<head>> ELSE <<startBlockCfg>>
     /\ (/\ LoopStepAt("pair") /\ faults' = faults
         /\ handlers[hIdx].contractName \notin DOMAIN block_sync_state) =>
          /\ initializedStartBlock # <<>>
          /\ firstFrom'[handlers[hIdx].contractName] = initializedStartBlock
          /\ IF initializedStartBlock[1] <= currentBlock
             THEN pc' = "fetch" /\ start' = initializedStartBlock[1]
             ELSE pc' # "fetch"]_vars

\* C32 witness: with the sentinel 0 configured, a tick later than the first
\* (the chain has moved past the resolved block) fetches for a pair without a
\* checkpoint from the block resolved by the first tick.
C32_Witness ==
  /\ startBlockCfg = 0
  /\ initializedStartBlock # <<>>
  /\ head > initializedStartBlock[1]
  /\ pc = "fetch"
  /\ handlers[hIdx].contractName \notin DOMAIN block_sync_state
  /\ start = initializedStartBlock[1]

\* ---------------------------------------------------------------- C33
\* The events whose handler adjusts a counter or balance of the player row of
\* the wallet the event names.
PlayerEvents == {"TimePurchased", "TimeConsumed", "YeetSent", "Staked", "Unstaked"}

\* C33: when a handler has processed an event that names a wallet, the player
\* row of that wallet (keyed by the lower-cased address) exists, also when it
\* did not exist before the event.
C33_HandlerResolvesOrCreatesPlayer ==
  [][\A l \in chainLogs :
       (/\ l.ev \in PlayerEvents
        /\ <<l.ev, l.tx>> \notin handled
        /\ <<l.ev, l.tx>> \in handled')
       => toLowerCase(l.player) \in DOMAIN players']_vars

\* ---------------------------------------------------------------- C34
\* C34: whatever addToPool and claimFromPool calls are made and however their
\* steps interleave, the stored pool balance is between 0 and POOL_CAP.
C34_PoolBalanceInRange ==
  lost_found_pool.balance >= 0 /\ lost_found_pool.balance <= POOL_CAP

\* C34 witness: the pool is at its cap after an addToPool call that wrote the
\* pool while a claimFromPool call was between its read of the pool and its
\* write.
C34_Witness ==
  /\ lost_found_pool.balance = POOL_CAP
  /\ \E q \in Requests : addreq[q].pc = "done" /\ addreq[q].overflow > 0
  /\ \E r \in Requests :
       clreq[r].pc = "updatePool" /\ clreq[r].poolState.balance < lost_found_pool.balance

\* ---------------------------------------------------------------- C35
\* What retry has done so far agrees with its contract: fn was called at most
\* maxAttempts times, every call but the last failed with an error that is
\* retried, a returned call returns the value of its last (first successful)
\* call of fn, and a call that threw throws the error of its last call of fn,
\* which was rejected by retryIf or was attempt number maxAttempts.
RetryContract(rc) ==
  LET n == Len(rc.outcomes)
  IN /\ n <= rc.maxAttempts
     /\ \A i \in 1..(n - 1) :
          /\ ~rc.outcomes[i].ok
          /\ rc.retryIf => isRetryableError(rc.outcomes[i].error)
     /\ rc.pc = "attempt" => n < rc.maxAttempts
     /\ rc.pc = "returned" =>
          n >= 1 /\ rc.outcomes[n].ok /\ rc.result = <<rc.outcomes[n].value>>
     /\ rc.pc = "threw" =>
          /\ n >= 1 /\ ~rc.outcomes[n].ok /\ rc.result = <<rc.outcomes[n].error>>
          /\ \/ rc.retryIf /\ ~isRetryableError(rc.outcomes[n].error)
             \/ n = rc.maxAttempts

\* C35: a retry call ends, by returning or throwing, after at most maxAttempts
\* calls of fn: it returns the first successful call's value without calling
\* fn again, throws at once the first error retryIf rejects, and otherwise
\* throws the error of the last attempt.
C35_RetryBounded ==
  /\ [](rcall.pc # "idle" => RetryContract(rcall))
  /\ (rcall.pc = "attempt") ~> (rcall.pc \in {"returned", "threw"})

\* C35 witness: a call with retryIf that retried a 503 and then threw at once
\* the revert of its second attempt, with an attempt still left.
C35_Witness ==
  /\ rcall.pc = "threw" /\ rcall.retryIf
  /\ Len(rcall.outcomes) = 2 /\ rcall.maxAttempts = maxAttempts
  /\ isRetryableError(rcall.outcomes[1].error)
  /\ ~isRetryableError(rcall.outcomes[2].error)

\* ---------------------------------------------------------------- C36
\* C36: whatever startSession, pauseSession, resumeSession and endSession
\* calls are made, every wallet has at most one session in status active.
C36_OneActiveSessionPerWallet ==
  \A w \in Wallets :
    Cardinality({i \in DOMAIN game_sessions :
                   /\ game_sessions[i].wallet_address = toLowerCase(w)
                   /\ game_sessions[i].status = "active"}) <= 1

\* ---------------------------------------------------------------- C37
\* C37: whenever no addToPool or claimFromPool call is in progress, the pool
\* record satisfies balance + total_claimed + total_overflow = total_received.
C37_PoolAccountingIdentity ==
  (\A r \in Requests : addreq[r].pc \in {"idle", "done"} /\ clreq[r].pc \in {"idle", "done"})
  => lost_found_pool.balance + lost_found_pool.total_claimed + lost_found_pool.total_overflow
       = lost_found_pool.total_received

\* ---------------------------------------------------------------- C38
\* The payouts to wallet w mined so far.
Payouts(w) == {l \in chainLogs : l.ev = "Claimed" /\ l.player = w}

\* C38: within one cooldown window (the clock does not move) a wallet receives
\* at most one payout on chain, however many claimFromPool calls run at the
\* same time.
C38_OnePayoutPerWindow ==
  \A w \in Wallets : Cardinality(Payouts(w)) <= 1

\* ---------------------------------------------------------------- C39
\* C39: whenever getClaimInfo reports canClaim for a wallet, its maxClaimable
\* is the maxClaimable claimFromPool computes for that wallet at that instant
\* (getMaxClaimable of the streak calculateNewStreak gives).
C39_ClaimInfoMatchesClaim ==
  \A w \in Wallets :
    LET claimState == getClaimState(w)
        info == getClaimInfo(claimState, now)
        currentStreak == IF claimState = <<>> THEN 0 ELSE claimState[1].streak
        lastClaimTime == IF claimState = <<>> THEN <<>> ELSE claimState[1].last_claim_time
    IN info.canClaim =>
         info.maxClaimable =
           getMaxClaimable(calculateNewStreak(lastClaimTime, currentStreak, now))

====
